---- MODULE Spec2Model ----
(***************************************************************************)
(* Command Builder: five form-to-command-string builders (yt-dlp, ffmpeg,  *)
(* ImageMagick, curl, git) behind a router.  Each builder keeps an Options *)
(* record, a selected-preset indicator and a displayed command that is     *)
(* compiled from the Options record.                                       *)
(*                                                                         *)
(* Strings are TLA+ strings.  The code builds an array `parts` and joins   *)
(* it with single spaces; the model builds the same array as a sequence of *)
(* strings.  A template literal that holds a space (`-crf ${crf}`) is      *)
(* written as its two words, which join(" ") renders identically.          *)
(* The four fields the code inspects character by character (trim, split,  *)
(* includes) are kept as Texts: sequences of non-empty chunks in which     *)
(* every white-space character and every "?" is a chunk of its own.  The   *)
(* strings of the module are ASCII: a character outside ASCII is a chunk   *)
(* of its own, spelled as its escape \uXXXX (four upper-case hex digits),  *)
(* so the chunk "\\u00A0" is the one character U+00A0.                     *)
(***************************************************************************)
EXTENDS Integers, Sequences, FiniteSets, TLC

VARIABLES
    route,          \* the path the router shows ("/" is the home listing)
    options,        \* the Options record of the mounted builder
    selectedPreset, \* the active-preset indicator of the mounted builder
    command,        \* the command string the mounted builder displays
    effectPending,  \* yt-dlp only: the useEffect that refreshes `command` has not run yet
    nActions,       \* user actions taken on this mount (model bound)
    runBase,        \* history: the Options record before the presets of runKeys were applied
    runKeys,        \* history: the preset keys applied since the last field edit
    copied,         \* the copy indicator of the mounted builder ("Copied!" when TRUE)
    writes,         \* the texts of the clipboard writes of this mount still in flight
    timers,         \* the setCopied(false) timers of this mount not fired yet (FIFO, same delay)
    stale           \* promises or timers of unmounted builders are still pending

vars ==
    <<route, options, selectedPreset, command, effectPending, nActions, runBase, runKeys,
      copied, writes, timers, stale>>

clipVars == <<copied, writes, timers, stale>>

\* Bound of the model: user actions (edits, preset selections, copies) per mounted screen.
MaxActions == 2

-----------------------------------------------------------------------------
(* Strings and Texts *)

Truthy(s) == s # ""

Quote(s) == "\"" \o s \o "\""

SQuote(s) == "'" \o s \o "'"

Opt(cond, seq) == IF cond THEN seq ELSE <<>>

RECURSIVE Join(_)
Join(parts) ==
    IF parts = <<>> THEN ""
    ELSE IF Len(parts) = 1 THEN parts[1]
    ELSE parts[1] \o " " \o Join(Tail(parts))

RECURSIVE Str(_)
Str(text) == IF text = <<>> THEN "" ELSE text[1] \o Str(Tail(text))

\* slip: only the ASCII white space is trimmed
IsSpaceAsciiOnly(c) == c \in {"\t", "\n", "", "\f", "\r", " "}

\* the characters String.prototype.trim() removes: the code points of the
\* ECMAScript WhiteSpace and LineTerminator productions.  The ASCII ones are
\* tab, line feed, vertical tab (U+000B), form feed, carriage return and
\* space; the others are U+00A0, U+1680, U+2000..U+200A, U+2028, U+2029,
\* U+202F, U+205F, U+3000 and U+FEFF.
IsSpace(c) ==
    c \in { "\t", "\n", "", "\f", "\r", " ",
            "\\u00A0", "\\u1680", "\\u2000", "\\u2001", "\\u2002", "\\u2003",
            "\\u2004", "\\u2005", "\\u2006", "\\u2007", "\\u2008", "\\u2009",
            "\\u200A", "\\u2028", "\\u2029", "\\u202F", "\\u205F", "\\u3000",
            "\\uFEFF" }

RECURSIVE TrimStart(_)
TrimStart(text) ==
    IF text # <<>> /\ IsSpace(text[1]) THEN TrimStart(Tail(text)) ELSE text

RECURSIVE TrimEnd(_)
TrimEnd(text) ==
    IF text # <<>> /\ IsSpace(text[Len(text)])
    THEN TrimEnd(SubSeq(text, 1, Len(text) - 1))
    ELSE text

Trim(text) == TrimEnd(TrimStart(text))

Includes(text, c) == \E i \in 1..Len(text) : text[i] = c

\* text.split("\n"): the sequence of lines, each a Text
RECURSIVE SplitLines(_)
SplitLines(text) ==
    IF \A i \in 1..Len(text) : text[i] # "\n" THEN <<text>>
    ELSE LET k == CHOOSE i \in 1..Len(text) :
                      text[i] = "\n" /\ \A j \in 1..(i - 1) : text[j] # "\n"
         IN  <<SubSeq(text, 1, k - 1)>> \o SplitLines(SubSeq(text, k + 1, Len(text)))

Contains(parts, tok) == \E i \in 1..Len(parts) : parts[i] = tok

Count(parts, tok) == Cardinality({i \in 1..Len(parts) : parts[i] = tok})

\* Overlay of a partial record on a record: { ...prev, ...over }
Overlay(prev, over) ==
    [k \in (DOMAIN prev) \cup (DOMAIN over) |->
        IF k \in DOMAIN over THEN over[k] ELSE prev[k]]

-----------------------------------------------------------------------------
(* yt-dlp builder (src/src/components/builder.tsx) *)

YtDlpDefaults ==
    [ url |-> "", quality |-> "best", format |-> "mp4", audioOnly |-> FALSE,
      audioQuality |-> "5", outputPath |-> "", outputTemplate |-> "%(title)s.%(ext)s",
      subtitles |-> "none", subtitleLang |-> "en", subtitleFormat |-> "srt",
      embedSubtitles |-> FALSE, embedThumbnail |-> FALSE, embedMetadata |-> FALSE,
      embedChapters |-> FALSE, writeThumbnail |-> FALSE, writeDescription |-> FALSE,
      writeInfoJson |-> FALSE, playlist |-> "all", playlistStart |-> "",
      playlistEnd |-> "", rateLimit |-> "", cookieSource |-> "none", cookieFile |-> "",
      cookieBrowser |-> "chrome", cookieProfile |-> "", sponsorblockRemove |-> "none",
      sponsorblockMark |-> "none", liveFromStart |-> FALSE, downloadArchive |-> "",
      proxy |-> "", useAria2c |-> FALSE ]

YtDlpPresets ==
    [ bestQuality |->
        [ quality |-> "best", format |-> "mp4", audioOnly |-> FALSE,
          embedSubtitles |-> TRUE, embedThumbnail |-> TRUE, embedMetadata |-> TRUE,
          embedChapters |-> TRUE, subtitles |-> "all", subtitleLang |-> "en",
          subtitleFormat |-> "srt" ],
      audioMP3 |->
        [ audioOnly |-> TRUE, format |-> "mp3", audioQuality |-> "0",
          embedThumbnail |-> TRUE, embedMetadata |-> TRUE ],
      audioAAC |->
        [ audioOnly |-> TRUE, format |-> "m4a", audioQuality |-> "0",
          embedThumbnail |-> TRUE, embedMetadata |-> TRUE ],
      quickDownload |->
        [ quality |-> "720", format |-> "mp4", audioOnly |-> FALSE,
          embedSubtitles |-> FALSE, embedThumbnail |-> FALSE, embedMetadata |-> FALSE,
          subtitles |-> "none" ],
      archiveMode |->
        [ quality |-> "best", format |-> "mkv", audioOnly |-> FALSE,
          embedSubtitles |-> TRUE, embedThumbnail |-> TRUE, embedMetadata |-> TRUE,
          embedChapters |-> TRUE, writeThumbnail |-> TRUE, writeDescription |-> TRUE,
          writeInfoJson |-> TRUE, subtitles |-> "all", subtitleLang |-> "en,ja",
          subtitleFormat |-> "srt" ],
      playlistMode |->
        [ quality |-> "1080", format |-> "mp4", audioOnly |-> FALSE,
          playlist |-> "all", embedMetadata |-> TRUE ],
      noSponsor |->
        [ quality |-> "best", format |-> "mp4", audioOnly |-> FALSE,
          sponsorblockRemove |-> "sponsor,intro,outro", embedMetadata |-> TRUE ] ]

\* slip: the -f selector branch is not in the else of the audio-extraction branch
YtDlpQualityFormatBothModes(o) ==
    Opt(o.audioOnly,
        <<"-x", "--audio-format", IF o.format = "mp4" THEN "mp3" ELSE o.format>>
        \o Opt(Truthy(o.audioQuality), <<"--audio-quality", o.audioQuality>>))
    \o (IF o.quality = "best" THEN <<"-f", "bestvideo+bestaudio/best">>
        ELSE IF o.quality = "worst" THEN <<"-f", "worstvideo+worstaudio/worst">>
        ELSE <<"-f", "bestvideo[height<=" \o o.quality \o "]+bestaudio/best[height<="
                      \o o.quality \o "]">>)
    \o Opt(o.format # "default", <<"--merge-output-format", o.format>>)

\* "Quality and format": the audio-extraction branch or the -f selector branch
YtDlpQualityFormat(o) ==
    IF o.audioOnly
    THEN <<"-x", "--audio-format", IF o.format = "mp4" THEN "mp3" ELSE o.format>>
         \o Opt(Truthy(o.audioQuality), <<"--audio-quality", o.audioQuality>>)
    ELSE (IF o.quality = "best" THEN <<"-f", "bestvideo+bestaudio/best">>
          ELSE IF o.quality = "worst" THEN <<"-f", "worstvideo+worstaudio/worst">>
          ELSE <<"-f", "bestvideo[height<=" \o o.quality \o "]+bestaudio/best[height<="
                        \o o.quality \o "]">>)
         \o Opt(o.format # "default", <<"--merge-output-format", o.format>>)

YtDlpOutput(o) ==
    Opt(Truthy(o.outputPath), <<"-P", o.outputPath>>)
    \o Opt(Truthy(o.outputTemplate), <<"-o", o.outputTemplate>>)

YtDlpSubtitles(o) ==
    (IF o.subtitles = "all" THEN <<"--all-subs">>
     ELSE IF o.subtitles = "auto" THEN <<"--write-auto-sub">>
     ELSE IF o.subtitles = "manual" THEN <<"--write-sub">>
     ELSE <<>>)
    \o Opt(o.subtitles # "none" /\ Truthy(o.subtitleLang), <<"--sub-lang", o.subtitleLang>>)
    \o Opt(o.subtitles # "none" /\ Truthy(o.subtitleFormat),
           <<"--sub-format", o.subtitleFormat>>)
    \o Opt(o.embedSubtitles, <<"--embed-subs">>)

YtDlpMetadata(o) ==
    Opt(o.embedThumbnail, <<"--embed-thumbnail">>)
    \o Opt(o.embedMetadata, <<"--embed-metadata">>)
    \o Opt(o.embedChapters, <<"--embed-chapters">>)
    \o Opt(o.writeThumbnail, <<"--write-thumbnail">>)
    \o Opt(o.writeDescription, <<"--write-description">>)
    \o Opt(o.writeInfoJson, <<"--write-info-json">>)

YtDlpPlaylist(o) ==
    IF o.playlist = "single" THEN <<"--no-playlist">>
    ELSE Opt(Truthy(o.playlistStart), <<"--playlist-start", o.playlistStart>>)
         \o Opt(Truthy(o.playlistEnd), <<"--playlist-end", o.playlistEnd>>)

YtDlpSponsorBlock(o) ==
    Opt(Truthy(o.sponsorblockRemove) /\ o.sponsorblockRemove # "none",
        <<"--sponsorblock-remove", o.sponsorblockRemove>>)
    \o Opt(Truthy(o.sponsorblockMark) /\ o.sponsorblockMark # "none",
           <<"--sponsorblock-mark", o.sponsorblockMark>>)

YtDlpAdvanced(o) ==
    Opt(Truthy(o.rateLimit), <<"--limit-rate", o.rateLimit>>)
    \o Opt(Truthy(o.proxy), <<"--proxy", o.proxy>>)
    \o Opt(Truthy(o.downloadArchive), <<"--download-archive", o.downloadArchive>>)
    \o Opt(o.liveFromStart, <<"--live-from-start">>)

YtDlpCookies(o) ==
    IF o.cookieSource = "file" /\ Truthy(o.cookieFile)
    THEN <<"--cookies", o.cookieFile>>
    ELSE IF o.cookieSource = "browser" /\ Truthy(o.cookieBrowser)
    THEN <<"--cookies-from-browser",
           IF Truthy(o.cookieProfile) THEN o.cookieBrowser \o ":" \o o.cookieProfile
           ELSE o.cookieBrowser>>
    ELSE <<>>

\* "URL (always last)": pushed only when non-empty; no placeholder is returned
YtDlpUrl(o) == Opt(Truthy(o.url), <<o.url>>)

YtDlpParts(o) ==
    <<"yt-dlp">> \o YtDlpQualityFormat(o) \o YtDlpOutput(o) \o YtDlpSubtitles(o)
    \o YtDlpMetadata(o) \o YtDlpPlaylist(o) \o YtDlpSponsorBlock(o) \o YtDlpAdvanced(o)
    \o YtDlpCookies(o) \o Opt(o.useAria2c, <<"--external-downloader", "aria2c">>)
    \o YtDlpUrl(o)

generateCommand(o) == Join(YtDlpParts(o))

-----------------------------------------------------------------------------
(* ffmpeg builder (src/unnamed/part_001) *)

FFmpegDefaults ==
    [ inputFile |-> "", outputFile |-> "", videoCodec |-> "libx264", audioCodec |-> "aac",
      format |-> "mp4", videoBitrate |-> "", audioBitrate |-> "", resolution |-> "original",
      customResolution |-> "", frameRate |-> "", crf |-> "23", preset |-> "medium",
      twoPass |-> FALSE, startTime |-> "", duration |-> "", audioOnly |-> FALSE,
      videoOnly |-> FALSE, copyVideo |-> FALSE, copyAudio |-> FALSE, overwrite |-> TRUE,
      logLevel |-> "info", threads |-> "", pixFmt |-> "", videoProfile |-> "",
      videoLevel |-> "", vsync |-> "", fastStart |-> FALSE, audioSampleRate |-> "",
      audioChannels |-> "", videoFilter |-> "", audioFilter |-> "", extraOptions |-> "" ]

FFmpegPresets ==
    [ highQuality |->
        [ videoCodec |-> "libx265", audioCodec |-> "aac", crf |-> "18", preset |-> "slow",
          audioBitrate |-> "320k" ],
      webOptimized |->
        [ videoCodec |-> "libx264", audioCodec |-> "aac", crf |-> "23",
          preset |-> "medium", audioBitrate |-> "192k", format |-> "mp4" ],
      audioExtract |->
        [ audioOnly |-> TRUE, audioCodec |-> "mp3", audioBitrate |-> "320k",
          format |-> "mp3" ],
      compress |->
        [ videoCodec |-> "libx264", audioCodec |-> "aac", crf |-> "28",
          preset |-> "medium", audioBitrate |-> "128k", resolution |-> "1280x720" ],
      quickConvert |->
        [ copyVideo |-> TRUE, copyAudio |-> TRUE, preset |-> "ultrafast" ] ]

FFmpegGlobal(o) ==
    Opt(Truthy(o.logLevel), <<"-loglevel", o.logLevel>>)
    \o Opt(Truthy(o.threads), <<"-threads", o.threads>>)

FFmpegInput(o) ==
    <<"-i", Quote(o.inputFile)>>
    \o Opt(Truthy(o.startTime), <<"-ss", o.startTime>>)
    \o Opt(Truthy(o.duration), <<"-t", o.duration>>)

FFmpegResolution(o) ==
    IF o.resolution = "custom" THEN o.customResolution
    ELSE IF o.resolution = "original" THEN ""
    ELSE o.resolution

\* the re-encode flags of the video stream
FFmpegVideoEncode(o) ==
    Opt(Truthy(o.videoCodec), <<"-c:v", o.videoCodec>>)
    \o Opt(Truthy(o.crf) /\ ~o.twoPass, <<"-crf", o.crf>>)
    \o Opt(Truthy(o.preset) /\ (o.videoCodec = "libx264" \/ o.videoCodec = "libx265"),
           <<"-preset", o.preset>>)
    \o Opt(Truthy(o.videoBitrate), <<"-b:v", o.videoBitrate>>)
    \o Opt(Truthy(FFmpegResolution(o)), <<"-s", FFmpegResolution(o)>>)
    \o Opt(Truthy(o.frameRate), <<"-r", o.frameRate>>)
    \o Opt(Truthy(o.pixFmt), <<"-pix_fmt", o.pixFmt>>)
    \o Opt(Truthy(o.videoProfile), <<"-profile:v", o.videoProfile>>)
    \o Opt(Truthy(o.videoLevel), <<"-level:v", o.videoLevel>>)
    \o Opt(Truthy(o.vsync), <<"-vsync", o.vsync>>)
    \o Opt(o.fastStart, <<"-movflags", "+faststart">>)

\* slip: the stream-copy branch falls through into the re-encode flags
FFmpegVideoCopyFallsThrough(o) ==
    IF ~o.audioOnly
    THEN (IF o.copyVideo THEN <<"-c:v", "copy">> \o FFmpegVideoEncode(o)
          ELSE FFmpegVideoEncode(o))
    ELSE <<"-vn">>

FFmpegVideo(o) ==
    IF ~o.audioOnly
    THEN (IF o.copyVideo THEN <<"-c:v", "copy">> ELSE FFmpegVideoEncode(o))
    ELSE <<"-vn">>

\* the re-encode flags of the audio stream
FFmpegAudioEncode(o) ==
    Opt(Truthy(o.audioCodec), <<"-c:a", o.audioCodec>>)
    \o Opt(Truthy(o.audioBitrate), <<"-b:a", o.audioBitrate>>)
    \o Opt(Truthy(o.audioSampleRate), <<"-ar", o.audioSampleRate>>)
    \o Opt(Truthy(o.audioChannels), <<"-ac", o.audioChannels>>)

FFmpegAudio(o) ==
    IF ~o.videoOnly
    THEN (IF o.copyAudio THEN <<"-c:a", "copy">> ELSE FFmpegAudioEncode(o))
    ELSE <<"-an">>

FFmpegFormatFilters(o) ==
    Opt(Truthy(o.format), <<"-f", o.format>>)
    \o Opt(o.overwrite, <<"-y">>)
    \o Opt(Truthy(o.videoFilter), <<"-vf", o.videoFilter>>)
    \o Opt(Truthy(o.audioFilter), <<"-af", o.audioFilter>>)

\* slip: the extra options are pushed without the emptiness test
FFmpegExtraAlways(o) == <<o.extraOptions>>

FFmpegExtra(o) == Opt(Truthy(o.extraOptions), <<o.extraOptions>>)

FFmpegOutputFile(o) ==
    IF Truthy(o.outputFile) THEN o.outputFile
    ELSE "output." \o (IF Truthy(o.format) THEN o.format ELSE "mp4")

FFmpegParts(o) ==
    <<"ffmpeg">> \o FFmpegGlobal(o) \o FFmpegInput(o) \o FFmpegVideo(o) \o FFmpegAudio(o)
    \o FFmpegFormatFilters(o) \o FFmpegExtra(o) \o <<Quote(FFmpegOutputFile(o))>>

FFmpegMissing(o) == ~Truthy(o.inputFile)

FFmpegCommand(o) ==
    IF FFmpegMissing(o) THEN "# Please specify an input file" ELSE Join(FFmpegParts(o))

-----------------------------------------------------------------------------
(* ImageMagick builder (src/src/components/imagemagick-builder.tsx) *)

ImageMagickDefaults ==
    [ inputFile |-> "", outputFile |-> "", outputFormat |-> "auto", resize |-> "",
      quality |-> "", crop |-> "", rotate |-> "", flip |-> FALSE, flop |-> FALSE,
      grayscale |-> FALSE, stripMetadata |-> TRUE, background |-> "", flatten |-> FALSE,
      blur |-> "", sharpen |-> "", density |-> "", extraOptions |-> "" ]

ImageMagickPresets ==
    [ webOptimized |->
        [ outputFormat |-> "jpg", resize |-> "1920x1080>", quality |-> "80",
          stripMetadata |-> TRUE ],
      thumbnail |->
        [ outputFormat |-> "jpg", resize |-> "320x320>", quality |-> "75",
          stripMetadata |-> TRUE ],
      avatar |->
        [ outputFormat |-> "png", crop |-> "512x512+0+0", resize |-> "512x512!",
          stripMetadata |-> TRUE ],
      grayscaleWebp |->
        [ outputFormat |-> "webp", grayscale |-> TRUE, quality |-> "80" ],
      printHighRes |->
        [ outputFormat |-> "tiff", density |-> "300", quality |-> "95" ] ]

ImageMagickOperations(o) ==
    Opt(Truthy(o.resize), <<"-resize", o.resize>>)
    \o Opt(Truthy(o.crop), <<"-crop", o.crop>>)
    \o Opt(Truthy(o.rotate), <<"-rotate", o.rotate>>)
    \o Opt(o.flip, <<"-flip">>)
    \o Opt(o.flop, <<"-flop">>)
    \o Opt(o.grayscale, <<"-colorspace", "Gray">>)
    \o Opt(Truthy(o.quality), <<"-quality", o.quality>>)
    \o Opt(Truthy(o.density), <<"-density", o.density>>)
    \o Opt(Truthy(o.blur), <<"-blur", o.blur>>)
    \o Opt(Truthy(o.sharpen), <<"-sharpen", o.sharpen>>)
    \o Opt(Truthy(o.background), <<"-background", o.background>>)
    \o Opt(o.flatten, <<"-flatten">>)
    \o Opt(o.stripMetadata, <<"-strip">>)

ImageMagickExtra(o) == Opt(Truthy(o.extraOptions), <<o.extraOptions>>)

\* slip: the "auto" format is appended like any other
ImageMagickTargetAlwaysDotted(o) ==
    IF Truthy(o.outputFile) THEN o.outputFile
    ELSE "output." \o o.outputFormat

ImageMagickTarget(o) ==
    IF Truthy(o.outputFile) THEN o.outputFile
    ELSE IF o.outputFormat = "auto" THEN "output"
    ELSE "output." \o o.outputFormat

\* slip: the legacy binary name
ImageMagickPartsConvert(o) ==
    <<"convert", Quote(o.inputFile)>> \o ImageMagickOperations(o) \o ImageMagickExtra(o)
    \o <<Quote(ImageMagickTarget(o))>>

ImageMagickParts(o) ==
    <<"magick", Quote(o.inputFile)>> \o ImageMagickOperations(o) \o ImageMagickExtra(o)
    \o <<Quote(ImageMagickTarget(o))>>

ImageMagickMissing(o) == ~Truthy(o.inputFile)

ImageMagickCommand(o) ==
    IF ImageMagickMissing(o) THEN "# Please specify an input file"
    ELSE Join(ImageMagickParts(o))

-----------------------------------------------------------------------------
(* curl builder (src/src/components/curl-builder.tsx, lines 1-722) *)
(* url, queryParams and headers are Texts.                          *)

CurlDefaults ==
    [ method |-> "GET", url |-> <<>>, useJson |-> FALSE, jsonBody |-> "", formBody |-> "",
      rawBody |-> "", contentType |-> "", headers |-> <<>>, queryParams |-> <<>>,
      followRedirects |-> TRUE, showHeaders |-> FALSE, insecure |-> FALSE,
      compressed |-> FALSE, authType |-> "none", username |-> "", password |-> "",
      bearerToken |-> "", dataMode |-> "json", outputFile |-> "", proxy |-> "",
      timeout |-> "", retry |-> "", extraOptions |-> "" ]

\* slip: a preset that brings its own example URL
CurlPresetsWithUrl ==
    [ jsonGet |->
        [ method |-> "GET", useJson |-> FALSE, contentType |-> "application/json",
          headers |-> <<"Accept:", " ", "application/json">>,
          url |-> <<"https://api.example.com">> ],
      jsonPost |->
        [ method |-> "POST", useJson |-> TRUE, contentType |-> "application/json",
          headers |-> <<"Accept:", " ", "application/json">> ],
      formPost |->
        [ method |-> "POST", useJson |-> FALSE, dataMode |-> "form",
          contentType |-> "application/x-www-form-urlencoded" ],
      fileDownload |->
        [ method |-> "GET", outputFile |-> "downloaded.file", followRedirects |-> TRUE ],
      bearerAuth |->
        [ method |-> "GET", authType |-> "bearer" ] ]

CurlPresets ==
    [ jsonGet |->
        [ method |-> "GET", useJson |-> FALSE, contentType |-> "application/json",
          headers |-> <<"Accept:", " ", "application/json">> ],
      jsonPost |->
        [ method |-> "POST", useJson |-> TRUE, contentType |-> "application/json",
          headers |-> <<"Accept:", " ", "application/json">> ],
      formPost |->
        [ method |-> "POST", useJson |-> FALSE, dataMode |-> "form",
          contentType |-> "application/x-www-form-urlencoded" ],
      fileDownload |->
        [ method |-> "GET", outputFile |-> "downloaded.file", followRedirects |-> TRUE ],
      bearerAuth |->
        [ method |-> "GET", authType |-> "bearer" ] ]

CurlFlags(o) ==
    Opt(o.showHeaders, <<"-i">>)
    \o Opt(o.followRedirects, <<"-L">>)
    \o Opt(o.insecure, <<"-k">>)
    \o Opt(o.compressed, <<"--compressed">>)
    \o Opt(Truthy(o.timeout), <<"--max-time", o.timeout>>)
    \o Opt(Truthy(o.retry), <<"--retry", o.retry>>)
    \o Opt(Truthy(o.proxy), <<"--proxy", o.proxy>>)

\* slip: -X is pushed for GET as well
CurlMethodAlways(o) == <<"-X", o.method>>

CurlMethod(o) == Opt(o.method # "GET", <<"-X", o.method>>)

\* headers.split("\n").map(trim).filter(Boolean)
RECURSIVE CurlHeaderPairs(_)
CurlHeaderPairs(lines) ==
    IF lines = <<>> THEN <<>>
    ELSE Opt(Trim(lines[1]) # <<>>, <<"-H", Quote(Str(Trim(lines[1])))>>)
         \o CurlHeaderPairs(Tail(lines))

CurlHeaders(o) ==
    Opt(Truthy(o.contentType), <<"-H", Quote("Content-Type: " \o o.contentType)>>)
    \o Opt(o.headers # <<>>, CurlHeaderPairs(SplitLines(o.headers)))

\* slip: the bearer header does not look at authType
CurlAuthIgnoresType(o) ==
    Opt(o.authType = "basic" /\ Truthy(o.username),
        <<"-u", Quote(IF o.password # "" THEN o.username \o ":" \o o.password
                      ELSE o.username)>>)
    \o Opt(Truthy(o.bearerToken),
           <<"-H", Quote("Authorization: Bearer " \o o.bearerToken)>>)

CurlAuth(o) ==
    Opt(o.authType = "basic" /\ Truthy(o.username),
        <<"-u", Quote(IF o.password # "" THEN o.username \o ":" \o o.password
                      ELSE o.username)>>)
    \o Opt(o.authType = "bearer" /\ Truthy(o.bearerToken),
           <<"-H", Quote("Authorization: Bearer " \o o.bearerToken)>>)

\* slip: the useJson flag, not only dataMode, selects the JSON body
CurlBodyUsesJsonFlag(o) ==
    IF o.method = "POST" \/ o.method = "PUT" \/ o.method = "PATCH" \/ o.method = "DELETE"
    THEN IF (o.useJson \/ o.dataMode = "json") /\ Truthy(o.jsonBody)
         THEN <<"--data-binary", SQuote(o.jsonBody)>>
         ELSE IF o.dataMode = "form" /\ Truthy(o.formBody)
         THEN <<"--data-urlencode", Quote(o.formBody)>>
         ELSE IF o.dataMode = "raw" /\ Truthy(o.rawBody)
         THEN <<"--data-binary", SQuote(o.rawBody)>>
         ELSE <<>>
    ELSE <<>>

CurlBody(o) ==
    IF o.method = "POST" \/ o.method = "PUT" \/ o.method = "PATCH" \/ o.method = "DELETE"
    THEN IF o.dataMode = "json" /\ Truthy(o.jsonBody)
         THEN <<"--data-binary", SQuote(o.jsonBody)>>
         ELSE IF o.dataMode = "form" /\ Truthy(o.formBody)
         THEN <<"--data-urlencode", Quote(o.formBody)>>
         ELSE IF o.dataMode = "raw" /\ Truthy(o.rawBody)
         THEN <<"--data-binary", SQuote(o.rawBody)>>
         ELSE <<>>
    ELSE <<>>

CurlExtra(o) == Opt(Truthy(o.extraOptions), <<o.extraOptions>>)

\* slip: the query is always attached with "?"
CurlFinalUrlAlwaysQuestion(o) ==
    IF Trim(o.queryParams) # <<>>
    THEN Str(o.url) \o "?" \o Str(Trim(o.queryParams))
    ELSE Str(o.url)

CurlFinalUrl(o) ==
    IF Trim(o.queryParams) # <<>>
    THEN Str(o.url) \o (IF Includes(o.url, "?") THEN "&" ELSE "?")
         \o Str(Trim(o.queryParams))
    ELSE Str(o.url)

CurlOutput(o) == Opt(Truthy(o.outputFile), <<"-o", Quote(o.outputFile)>>)

CurlParts(o) ==
    <<"curl">> \o CurlFlags(o) \o CurlMethod(o) \o CurlHeaders(o) \o CurlAuth(o)
    \o CurlBody(o) \o CurlExtra(o) \o <<Quote(CurlFinalUrl(o))>> \o CurlOutput(o)

CurlMissing(o) == o.url = <<>>

CurlCommand(o) ==
    IF CurlMissing(o) THEN "# Please specify a URL" ELSE Join(CurlParts(o))

-----------------------------------------------------------------------------
(* git builder (src/src/components/git-builder.tsx); files is a Text *)

GitDefaults ==
    [ repoPath |-> "", command |-> "status", branch |-> "", remote |-> "origin",
      files |-> <<>>, statusShort |-> FALSE, statusBranch |-> FALSE,
      commitMessage |-> "", commitAll |-> FALSE, commitAmend |-> FALSE,
      commitNoVerify |-> FALSE, pushForceMode |-> "none", setUpstream |-> FALSE,
      pullRebase |-> FALSE, newBranchName |-> "", checkoutTarget |-> "",
      stashMessage |-> "", stashIncludeUntracked |-> FALSE, stashKeepIndex |-> FALSE,
      logLimit |-> "", logOneline |-> FALSE, logGraph |-> FALSE, logDecorate |-> FALSE,
      diffTarget |-> "", diffCached |-> FALSE, diffNameOnly |-> FALSE, cloneUrl |-> "",
      cloneDirectory |-> "", cloneBare |-> FALSE, resetMode |-> "mixed",
      resetTarget |-> "", tagName |-> "", tagAnnotated |-> TRUE, tagMessage |-> "",
      extraOptions |-> "" ]

\* slip: a preset writes a field name the Options record does not have
GitPresetsMisspelt ==
    [ statusAndLog |-> [ command |-> "status", logLimit |-> "10" ],
      initialCommit |->
        [ command |-> "commit", commitAll |-> TRUE, commitMesage |-> "Initial commit" ],
      featureBranch |-> [ command |-> "branch" ],
      syncCurrentBranch |->
        [ command |-> "pull", remote |-> "origin", pullRebase |-> TRUE ],
      stashChanges |-> [ command |-> "stash", stashIncludeUntracked |-> TRUE ] ]

GitPresets ==
    [ statusAndLog |-> [ command |-> "status", logLimit |-> "10" ],
      initialCommit |->
        [ command |-> "commit", commitAll |-> TRUE, commitMessage |-> "Initial commit" ],
      featureBranch |-> [ command |-> "branch" ],
      syncCurrentBranch |->
        [ command |-> "pull", remote |-> "origin", pullRebase |-> TRUE ],
      stashChanges |-> [ command |-> "stash", stashIncludeUntracked |-> TRUE ] ]

GitPrefix(o) ==
    Opt(Truthy(o.repoPath), <<"cd", Quote(o.repoPath), "&&">>) \o <<"git">>

GitStatus(o) ==
    <<"status">> \o Opt(o.statusShort, <<"--short">>) \o Opt(o.statusBranch, <<"--branch">>)

GitLog(o) ==
    <<"log">> \o Opt(Truthy(o.logLimit), <<"-n", o.logLimit>>)
    \o Opt(o.logOneline, <<"--oneline">>) \o Opt(o.logGraph, <<"--graph">>)
    \o Opt(o.logDecorate, <<"--decorate">>)

GitAdd(o) ==
    <<"add">> \o (IF Trim(o.files) # <<>> THEN <<Str(o.files)>> ELSE <<".">>)

GitCommit(o) ==
    <<"commit">> \o Opt(o.commitAll, <<"-a">>) \o Opt(o.commitAmend, <<"--amend">>)
    \o Opt(o.commitNoVerify, <<"--no-verify">>)
    \o Opt(Truthy(o.commitMessage), <<"-m", Quote(o.commitMessage)>>)

\* slip: the two force tests are independent ifs and "force" also matches the lease mode
GitPushBothForceFlags(o) ==
    <<"push">> \o Opt(o.setUpstream /\ Truthy(o.branch), <<"-u">>)
    \o Opt(o.pushForceMode = "force-with-lease", <<"--force-with-lease">>)
    \o Opt(o.pushForceMode # "none", <<"--force">>)
    \o Opt(Truthy(o.remote), <<o.remote>>) \o Opt(Truthy(o.branch), <<o.branch>>)

GitPush(o) ==
    <<"push">> \o Opt(o.setUpstream /\ Truthy(o.branch), <<"-u">>)
    \o (IF o.pushForceMode = "force-with-lease" THEN <<"--force-with-lease">>
        ELSE IF o.pushForceMode = "force" THEN <<"--force">>
        ELSE <<>>)
    \o Opt(Truthy(o.remote), <<o.remote>>) \o Opt(Truthy(o.branch), <<o.branch>>)

GitPull(o) ==
    <<"pull">> \o Opt(o.pullRebase, <<"--rebase">>)
    \o Opt(Truthy(o.remote), <<o.remote>>) \o Opt(Truthy(o.branch), <<o.branch>>)

GitBranch(o) == <<"branch">> \o Opt(Truthy(o.newBranchName), <<o.newBranchName>>)

GitCheckout(o) ==
    <<"checkout">>
    \o (IF Truthy(o.newBranchName) THEN <<"-b", o.newBranchName>>
        ELSE Opt(Truthy(o.checkoutTarget), <<o.checkoutTarget>>))

GitSwitch(o) ==
    <<"switch">>
    \o (IF Truthy(o.newBranchName) THEN <<"-c", o.newBranchName>>
        ELSE Opt(Truthy(o.checkoutTarget), <<o.checkoutTarget>>))

GitStash(o) ==
    <<"stash", "push">> \o Opt(o.stashIncludeUntracked, <<"--include-untracked">>)
    \o Opt(o.stashKeepIndex, <<"--keep-index">>)
    \o Opt(Truthy(o.stashMessage), <<"-m", Quote(o.stashMessage)>>)

GitDiff(o) ==
    <<"diff">> \o Opt(o.diffCached, <<"--cached">>) \o Opt(o.diffNameOnly, <<"--name-only">>)
    \o Opt(Truthy(o.diffTarget), <<o.diffTarget>>)
    \o Opt(Trim(o.files) # <<>>, <<"--", Str(o.files)>>)

GitClone(o) ==
    <<"clone">> \o Opt(o.cloneBare, <<"--bare">>) \o <<o.cloneUrl>>
    \o Opt(Truthy(o.cloneDirectory), <<o.cloneDirectory>>)

\* slip: the mode flag is pushed for every mode, "mixed" included
GitResetEmitsMixed(o) ==
    <<"reset">>
    \o Opt(Truthy(o.resetMode), <<"--" \o o.resetMode>>)
    \o Opt(Truthy(o.resetTarget), <<o.resetTarget>>)

GitReset(o) ==
    <<"reset">>
    \o Opt(Truthy(o.resetMode) /\ o.resetMode # "mixed", <<"--" \o o.resetMode>>)
    \o Opt(Truthy(o.resetTarget), <<o.resetTarget>>)

GitTag(o) ==
    <<"tag">> \o Opt(o.tagAnnotated, <<"-a">>) \o <<o.tagName>>
    \o Opt(o.tagAnnotated /\ Truthy(o.tagMessage), <<"-m", Quote(o.tagMessage)>>)

GitSubcommand(o) ==
    CASE o.command = "status" -> GitStatus(o)
      [] o.command = "log" -> GitLog(o)
      [] o.command = "add" -> GitAdd(o)
      [] o.command = "commit" -> GitCommit(o)
      [] o.command = "push" -> GitPush(o)
      [] o.command = "pull" -> GitPull(o)
      [] o.command = "branch" -> GitBranch(o)
      [] o.command = "checkout" -> GitCheckout(o)
      [] o.command = "switch" -> GitSwitch(o)
      [] o.command = "stash" -> GitStash(o)
      [] o.command = "diff" -> GitDiff(o)
      [] o.command = "clone" -> GitClone(o)
      [] o.command = "reset" -> GitReset(o)
      [] o.command = "tag" -> GitTag(o)
      [] OTHER -> <<"status">>

GitExtra(o) == Opt(Truthy(o.extraOptions), <<o.extraOptions>>)

GitParts(o) == GitPrefix(o) \o GitSubcommand(o) \o GitExtra(o)

GitMissingCloneUrl(o) == o.command = "clone" /\ ~Truthy(o.cloneUrl)

GitMissingTagName(o) == o.command = "tag" /\ ~Truthy(o.tagName)

GitCommand(o) ==
    IF GitMissingCloneUrl(o) THEN "# Please specify a clone URL"
    ELSE IF GitMissingTagName(o) THEN "# Please specify a tag name"
    ELSE Join(GitParts(o))

-----------------------------------------------------------------------------
(* The values each form control can deliver (small samples of what the user *)
(* can type or pick) and the condition under which the control is rendered  *)
(* and enabled.  A field with no control is absent from the table.          *)

YtDlpValues ==
    [ url |-> {"", "https://x/y"},
      quality |-> {"best", "worst", "720"},
      format |-> {"default", "mp4", "webm"},
      audioOnly |-> BOOLEAN,
      audioQuality |-> {"0", "5"},
      outputPath |-> {"", "/dl"},
      outputTemplate |-> {"", "%(title)s.%(ext)s"},
      subtitles |-> {"none", "auto", "manual", "all"},
      subtitleLang |-> {"", "en"},
      subtitleFormat |-> {"srt", "vtt"},
      embedSubtitles |-> BOOLEAN, embedThumbnail |-> BOOLEAN, embedMetadata |-> BOOLEAN,
      embedChapters |-> BOOLEAN, writeThumbnail |-> BOOLEAN, writeDescription |-> BOOLEAN,
      writeInfoJson |-> BOOLEAN,
      playlist |-> {"all", "single", "range"},
      playlistStart |-> {"", "2"},
      playlistEnd |-> {"", "5"},
      rateLimit |-> {"", "1M"},
      cookieSource |-> {"none", "file", "browser"},
      cookieFile |-> {"", "cookies.txt"},
      cookieBrowser |-> {"chrome", "firefox"},
      cookieProfile |-> {"", "Default"},
      sponsorblockRemove |-> {"none", "sponsor"},
      sponsorblockMark |-> {"none", "intro"},
      liveFromStart |-> BOOLEAN,
      downloadArchive |-> {"", "archive.txt"},
      proxy |-> {"", "socks5://p:1080"},
      useAria2c |-> BOOLEAN ]

YtDlpEditable(f, o) ==
    CASE f = "audioQuality" -> o.audioOnly
      [] f \in {"subtitleLang", "subtitleFormat", "embedSubtitles"} -> o.subtitles # "none"
      [] f \in {"playlistStart", "playlistEnd"} -> o.playlist = "range"
      [] f = "cookieFile" -> o.cookieSource = "file"
      [] f \in {"cookieBrowser", "cookieProfile"} -> o.cookieSource = "browser"
      [] OTHER -> TRUE

\* audioOnly and videoOnly have handlers of their own (ToggleAudioOnly, ToggleVideoOnly)
FFmpegValues ==
    [ inputFile |-> {"", "in.mov"},
      outputFile |-> {"", "out.mkv"},
      format |-> {"mp4", "mkv", "mp3"},
      overwrite |-> BOOLEAN,
      copyVideo |-> BOOLEAN,
      videoCodec |-> {"libx264", "libx265", "libvpx-vp9"},
      crf |-> {"", "23", "18"},
      preset |-> {"medium", "ultrafast"},
      videoBitrate |-> {"", "2M"},
      resolution |-> {"original", "1280x720", "custom"},
      customResolution |-> {"", "800x600"},
      frameRate |-> {"", "30"},
      pixFmt |-> {"", "yuv420p"},
      videoProfile |-> {"", "high"},
      videoLevel |-> {"", "4.1"},
      vsync |-> {"", "cfr"},
      fastStart |-> BOOLEAN,
      copyAudio |-> BOOLEAN,
      audioCodec |-> {"aac", "mp3"},
      audioBitrate |-> {"", "192k"},
      audioSampleRate |-> {"", "44100"},
      audioChannels |-> {"", "2"},
      startTime |-> {"", "00:00:10"},
      duration |-> {"", "30"},
      logLevel |-> {"info", "quiet"},
      threads |-> {"", "4"},
      videoFilter |-> {"", "scale=640:-1"},
      audioFilter |-> {"", "volume=2"},
      extraOptions |-> {"", "-map 0"} ]

FFmpegEditable(f, o) ==
    CASE f = "copyVideo" -> ~o.audioOnly
      [] f \in {"videoCodec", "crf", "preset", "videoBitrate", "resolution", "frameRate",
                "pixFmt", "videoProfile", "videoLevel", "vsync", "fastStart"} ->
            ~o.copyVideo /\ ~o.audioOnly
      [] f = "customResolution" ->
            ~o.copyVideo /\ ~o.audioOnly /\ o.resolution = "custom"
      [] f = "copyAudio" -> ~o.videoOnly
      [] f \in {"audioCodec", "audioBitrate", "audioSampleRate", "audioChannels"} ->
            ~o.copyAudio /\ ~o.videoOnly
      [] OTHER -> TRUE

ImageMagickValues ==
    [ inputFile |-> {"", "in.png"},
      outputFile |-> {"", "out.webp"},
      outputFormat |-> {"auto", "png", "jpg"},
      resize |-> {"", "50%"},
      crop |-> {"", "100x100+0+0"},
      rotate |-> {"", "90"},
      quality |-> {"", "85"},
      flip |-> BOOLEAN, flop |-> BOOLEAN, grayscale |-> BOOLEAN,
      blur |-> {"", "0x8"},
      sharpen |-> {"", "0x1"},
      background |-> {"", "white"},
      flatten |-> BOOLEAN,
      density |-> {"", "300"},
      stripMetadata |-> BOOLEAN,
      extraOptions |-> {"", "-auto-orient"} ]

ImageMagickEditable(f, o) == TRUE

\* useJson has no control: only presets write it
CurlValues ==
    [ url |-> {<<>>, <<"https://x">>, <<"https://x/api", "?", "a=1">>},
      method |-> {"GET", "POST", "PUT", "PATCH", "DELETE", "HEAD", "OPTIONS"},
      outputFile |-> {"", "out.json"},
      queryParams |-> {<<>>, <<"\\u00A0", "\f">>, <<"\r", "q=1", "\\u3000">>},
      contentType |-> {"", "application/json", "text/plain"},
      headers |-> {<<>>, <<"A:", " ", "1">>,
                   <<"\\uFEFF", "A:", " ", "1", "\r", "\n", "\\u00A0", "\n", "B:", " ", "2", "\\u2028">>},
      dataMode |-> {"json", "form", "raw"},
      jsonBody |-> {"", "{\"a\":1}"},
      formBody |-> {"", "a=1"},
      rawBody |-> {"", "hello"},
      authType |-> {"none", "basic", "bearer"},
      username |-> {"", "user"},
      password |-> {"", "pw"},
      bearerToken |-> {"", "tok"},
      proxy |-> {"", "http://p:8080"},
      timeout |-> {"", "30"},
      retry |-> {"", "3"},
      followRedirects |-> BOOLEAN, showHeaders |-> BOOLEAN, insecure |-> BOOLEAN,
      compressed |-> BOOLEAN,
      extraOptions |-> {"", "--verbose"} ]

CurlEditable(f, o) ==
    CASE f = "jsonBody" -> o.dataMode = "json"
      [] f = "formBody" -> o.dataMode = "form"
      [] f = "rawBody" -> o.dataMode = "raw"
      [] f \in {"username", "password"} -> o.authType = "basic"
      [] f = "bearerToken" -> o.authType = "bearer"
      [] OTHER -> TRUE

GitCommands ==
    {"status", "log", "add", "commit", "push", "pull", "branch", "checkout", "switch",
     "stash", "diff", "clone", "reset", "tag"}

GitValues ==
    [ repoPath |-> {"", "/repo"},
      command |-> GitCommands,
      files |-> {<<>>, <<"\r", "\\u2003">>, <<"a.txt", " ", "b.txt">>},
      statusShort |-> BOOLEAN, statusBranch |-> BOOLEAN,
      commitMessage |-> {"", "fix"},
      commitAll |-> BOOLEAN, commitAmend |-> BOOLEAN, commitNoVerify |-> BOOLEAN,
      logLimit |-> {"", "10"},
      logOneline |-> BOOLEAN, logGraph |-> BOOLEAN, logDecorate |-> BOOLEAN,
      diffTarget |-> {"", "HEAD~1"},
      diffCached |-> BOOLEAN, diffNameOnly |-> BOOLEAN,
      cloneUrl |-> {"", "https://h/r.git"},
      cloneDirectory |-> {"", "dir"},
      cloneBare |-> BOOLEAN,
      remote |-> {"", "origin", "upstream"},
      branch |-> {"", "main"},
      setUpstream |-> BOOLEAN,
      pushForceMode |-> {"none", "force-with-lease", "force"},
      pullRebase |-> BOOLEAN,
      newBranchName |-> {"", "feature/x"},
      checkoutTarget |-> {"", "main"},
      resetMode |-> {"soft", "mixed", "hard"},
      resetTarget |-> {"", "HEAD~1"},
      tagName |-> {"", "v1.0.0"},
      tagAnnotated |-> BOOLEAN,
      tagMessage |-> {"", "Release"},
      stashMessage |-> {"", "wip"},
      stashIncludeUntracked |-> BOOLEAN, stashKeepIndex |-> BOOLEAN,
      extraOptions |-> {"", "--verbose"} ]

GitEditable(f, o) ==
    CASE f \in {"statusShort", "statusBranch"} -> o.command = "status"
      [] f \in {"commitMessage", "commitAll", "commitAmend", "commitNoVerify"} ->
            o.command = "commit"
      [] f \in {"logLimit", "logOneline", "logGraph", "logDecorate"} -> o.command = "log"
      [] f \in {"diffTarget", "diffCached", "diffNameOnly"} -> o.command = "diff"
      [] f \in {"cloneUrl", "cloneDirectory", "cloneBare"} -> o.command = "clone"
      [] f \in {"remote", "branch"} -> o.command \in {"push", "pull"}
      [] f \in {"setUpstream", "pushForceMode"} -> o.command = "push"
      [] f = "pullRebase" -> o.command = "pull"
      [] f \in {"newBranchName", "checkoutTarget"} ->
            o.command \in {"branch", "checkout", "switch"}
      [] f \in {"resetMode", "resetTarget"} -> o.command = "reset"
      [] f \in {"tagName", "tagAnnotated"} -> o.command = "tag"
      [] f = "tagMessage" -> o.command = "tag" /\ o.tagAnnotated
      [] f \in {"stashMessage", "stashIncludeUntracked", "stashKeepIndex"} ->
            o.command = "stash"
      [] OTHER -> TRUE

-----------------------------------------------------------------------------
(* Router (src/src/App.tsx) and the per-route dispatch *)

Home == "/"

ToolPaths == {"/yt-dlp", "/ffmpeg", "/imagemagick", "/curl", "/git"}

Routes == {Home} \cup ToolPaths

\* slip: the "custom" card is switched on before its route exists
ToolsCustomAvailable ==
    { [id |-> "yt-dlp", path |-> "/yt-dlp", available |-> TRUE],
      [id |-> "ffmpeg", path |-> "/ffmpeg", available |-> FALSE],
      [id |-> "imagemagick", path |-> "/imagemagick", available |-> FALSE],
      [id |-> "curl", path |-> "/curl", available |-> FALSE],
      [id |-> "git", path |-> "/git", available |-> FALSE],
      [id |-> "custom", path |-> "/custom", available |-> TRUE] }

\* the cards of the home listing (src/src/components/home.tsx)
TOOLS ==
    { [id |-> "yt-dlp", path |-> "/yt-dlp", available |-> TRUE],
      [id |-> "ffmpeg", path |-> "/ffmpeg", available |-> FALSE],
      [id |-> "imagemagick", path |-> "/imagemagick", available |-> FALSE],
      [id |-> "curl", path |-> "/curl", available |-> FALSE],
      [id |-> "git", path |-> "/git", available |-> FALSE],
      [id |-> "custom", path |-> "/custom", available |-> FALSE] }

\* the paths the home listing links to: tool.available ? <Link to={tool.path}> : no link
HomeLinks == {t.path : t \in {u \in TOOLS : u.available}}

\* the home listing mounts no builder
NoOptions == [k \in {} |-> ""]

Defaults(r) ==
    CASE r = "/yt-dlp" -> YtDlpDefaults
      [] r = "/ffmpeg" -> FFmpegDefaults
      [] r = "/imagemagick" -> ImageMagickDefaults
      [] r = "/curl" -> CurlDefaults
      [] r = "/git" -> GitDefaults
      [] OTHER -> NoOptions

PRESETS(r) ==
    CASE r = "/yt-dlp" -> YtDlpPresets
      [] r = "/ffmpeg" -> FFmpegPresets
      [] r = "/imagemagick" -> ImageMagickPresets
      [] r = "/curl" -> CurlPresets
      [] r = "/git" -> GitPresets
      [] OTHER -> NoOptions

Values(r) ==
    CASE r = "/yt-dlp" -> YtDlpValues
      [] r = "/ffmpeg" -> FFmpegValues
      [] r = "/imagemagick" -> ImageMagickValues
      [] r = "/curl" -> CurlValues
      [] r = "/git" -> GitValues
      [] OTHER -> NoOptions

Editable(r, f, o) ==
    CASE r = "/yt-dlp" -> YtDlpEditable(f, o)
      [] r = "/ffmpeg" -> FFmpegEditable(f, o)
      [] r = "/imagemagick" -> ImageMagickEditable(f, o)
      [] r = "/curl" -> CurlEditable(f, o)
      [] r = "/git" -> GitEditable(f, o)
      [] OTHER -> FALSE

\* the compiler of the builder mounted at route r
Compile(r, o) ==
    CASE r = "/yt-dlp" -> generateCommand(o)
      [] r = "/ffmpeg" -> FFmpegCommand(o)
      [] r = "/imagemagick" -> ImageMagickCommand(o)
      [] r = "/curl" -> CurlCommand(o)
      [] r = "/git" -> GitCommand(o)
      [] OTHER -> ""

\* PRESETS is a plain object literal: PRESETS[key] is also truthy for the keys
\* it inherits from Object.prototype, and such a value has no `options`
ObjectPrototypeKeys ==
    { "constructor", "toString", "toLocaleString", "valueOf", "hasOwnProperty",
      "isPrototypeOf", "propertyIsEnumerable", "__proto__", "__defineGetter__",
      "__defineSetter__", "__lookupGetter__", "__lookupSetter__" }

\* setOptions((prev) => ({ ...prev, [key]: value }))
updateOption(prev, key, value) == Overlay(prev, key :> value)

\* slip: the preset is laid over the defaults instead of the current record
applyPresetOverDefaults(r, prev, sel, presetKey) ==
    IF presetKey = "none"
    THEN [options |-> prev, selectedPreset |-> ""]
    ELSE IF presetKey \in DOMAIN PRESETS(r)
    THEN [options |-> Overlay(Defaults(r), PRESETS(r)[presetKey]),
          selectedPreset |-> presetKey]
    ELSE IF presetKey \in ObjectPrototypeKeys
    THEN [options |-> prev, selectedPreset |-> presetKey]
    ELSE [options |-> prev, selectedPreset |-> sel]

\* slip: "none" also puts the form back to its defaults
applyPresetNoneResets(r, prev, sel, presetKey) ==
    IF presetKey = "none"
    THEN [options |-> Defaults(r), selectedPreset |-> ""]
    ELSE IF presetKey \in DOMAIN PRESETS(r)
    THEN [options |-> Overlay(prev, PRESETS(r)[presetKey]), selectedPreset |-> presetKey]
    ELSE IF presetKey \in ObjectPrototypeKeys
    THEN [options |-> prev, selectedPreset |-> presetKey]
    ELSE [options |-> prev, selectedPreset |-> sel]

\* applyPreset(presetKey) on the builder of route r: the Options record and the
\* preset indicator it leaves behind.  `if (preset)` passes for every truthy
\* PRESETS[presetKey]; spreading the undefined `options` of an inherited
\* property leaves the record as it was.
applyPreset(r, prev, sel, presetKey) ==
    IF presetKey = "none"
    THEN [options |-> prev, selectedPreset |-> ""]
    ELSE IF presetKey \in DOMAIN PRESETS(r)
    THEN [options |-> Overlay(prev, PRESETS(r)[presetKey]), selectedPreset |-> presetKey]
    ELSE IF presetKey \in ObjectPrototypeKeys
    THEN [options |-> prev, selectedPreset |-> presetKey]
    ELSE [options |-> prev, selectedPreset |-> sel]

\* slip: useMemo with an empty dependency list never recomputes
DisplayedStale(r, o, old) == old

\* What the screen displays after a render with Options o: the four useMemo
\* builders recompute during the render; yt-dlp keeps the old `command` state
\* until its effect has run.
Displayed(r, o, old) == IF r = "/yt-dlp" THEN old ELSE Compile(r, o)

-----------------------------------------------------------------------------
(* State machine *)

Init ==
    /\ route = Home
    /\ options = NoOptions
    /\ selectedPreset = ""
    /\ command = ""
    /\ effectPending = FALSE
    /\ nActions = 0
    /\ runBase = NoOptions
    /\ runKeys = <<>>
    /\ copied = FALSE
    /\ writes = <<>>
    /\ timers = 0
    /\ stale = FALSE

\* slip: the copy indicator is kept outside the builder and survives navigation
NavigateKeepsIndicator(p) ==
    /\ p # route
    /\ route' = p
    /\ options' = Defaults(p)
    /\ selectedPreset' = ""
    /\ command' = Displayed(p, Defaults(p), "")
    /\ effectPending' = (p = "/yt-dlp")
    /\ nActions' = 0
    /\ runBase' = Defaults(p)
    /\ runKeys' = <<>>
    /\ writes' = <<>>
    /\ timers' = 0
    /\ stale' = (stale \/ writes # <<>> \/ timers > 0)
    /\ UNCHANGED copied

\* The router mounts the builder of path p: fresh useState values.  The
\* promises and timers of the builder that is unmounted stay pending; their
\* callbacks set the state of a component that no longer exists.
Navigate(p) ==
    /\ p # route
    /\ route' = p
    /\ options' = Defaults(p)
    /\ selectedPreset' = ""
    /\ command' = Displayed(p, Defaults(p), "")
    /\ effectPending' = (p = "/yt-dlp")
    /\ nActions' = 0
    /\ runBase' = Defaults(p)
    /\ runKeys' = <<>>
    /\ copied' = FALSE
    /\ writes' = <<>>
    /\ timers' = 0
    /\ stale' = (stale \/ writes # <<>> \/ timers > 0)

\* slip: the effect runs but does not store the new command
RunEffectKeepsCommand ==
    /\ effectPending
    /\ effectPending' = FALSE
    /\ UNCHANGED <<route, options, selectedPreset, command, nActions, runBase, runKeys,
                   clipVars>>

\* yt-dlp: useEffect(() => setCommand(generateCommand()), [generateCommand])
RunEffect ==
    /\ effectPending
    /\ command' = generateCommand(options)
    /\ effectPending' = FALSE
    /\ UNCHANGED <<route, options, selectedPreset, nActions, runBase, runKeys, clipVars>>

\* a user event is handled only after pending effects have been flushed
CanAct == route \in ToolPaths /\ ~effectPending /\ nActions < MaxActions

\* slip: an edit also clears the preset indicator
UpdateOptionClearsPreset(f, v) ==
    /\ CanAct
    /\ Editable(route, f, options)
    /\ v # options[f]
    /\ options' = updateOption(options, f, v)
    /\ command' = Displayed(route, options', command)
    /\ effectPending' = (route = "/yt-dlp")
    /\ nActions' = nActions + 1
    /\ runBase' = options'
    /\ runKeys' = <<>>
    /\ selectedPreset' = ""
    /\ UNCHANGED <<route, clipVars>>

\* a control bound to field f delivers value v
UpdateOption(f, v) ==
    /\ CanAct
    /\ Editable(route, f, options)
    /\ v # options[f]
    /\ options' = updateOption(options, f, v)
    /\ command' = Displayed(route, options', command)
    /\ effectPending' = (route = "/yt-dlp")
    /\ nActions' = nActions + 1
    /\ runBase' = options'
    /\ runKeys' = <<>>
    /\ UNCHANGED <<route, selectedPreset, clipVars>>

\* ffmpeg "Audio only" checkbox: updateOption("audioOnly", checked);
\* if (checked) updateOption("videoOnly", false)
ToggleAudioOnly(checked) ==
    /\ CanAct
    /\ route = "/ffmpeg"
    /\ checked # options.audioOnly
    /\ options' = IF checked
                  THEN updateOption(updateOption(options, "audioOnly", checked),
                                    "videoOnly", FALSE)
                  ELSE updateOption(options, "audioOnly", checked)
    /\ command' = Displayed(route, options', command)
    /\ nActions' = nActions + 1
    /\ runBase' = options'
    /\ runKeys' = <<>>
    /\ UNCHANGED <<route, selectedPreset, effectPending, clipVars>>

\* ffmpeg "Video only" checkbox: updateOption("videoOnly", checked);
\* if (checked) updateOption("audioOnly", false)
ToggleVideoOnly(checked) ==
    /\ CanAct
    /\ route = "/ffmpeg"
    /\ checked # options.videoOnly
    /\ options' = IF checked
                  THEN updateOption(updateOption(options, "videoOnly", checked),
                                    "audioOnly", FALSE)
                  ELSE updateOption(options, "videoOnly", checked)
    /\ command' = Displayed(route, options', command)
    /\ nActions' = nActions + 1
    /\ runBase' = options'
    /\ runKeys' = <<>>
    /\ UNCHANGED <<route, selectedPreset, effectPending, clipVars>>

\* the keys the preset Select offers besides "none"
PresetKeys(r) == DOMAIN PRESETS(r)

\* the preset Select delivers presetKey.  setOptions is called whenever
\* PRESETS[presetKey] is truthy (a key of PRESETS or an inherited property
\* name); it stores a new record object, so the yt-dlp effect runs again.
ApplyPreset(presetKey) ==
    /\ CanAct
    /\ nActions' = nActions + 1
    /\ options' = applyPreset(route, options, selectedPreset, presetKey).options
    /\ selectedPreset' = applyPreset(route, options, selectedPreset, presetKey).selectedPreset
    /\ command' = Displayed(route, options', command)
    /\ effectPending' = (route = "/yt-dlp" /\ presetKey # "none"
                          /\ presetKey \in PresetKeys(route) \cup ObjectPrototypeKeys)
    /\ runKeys' = IF presetKey \in PresetKeys(route) THEN Append(runKeys, presetKey)
                  ELSE runKeys
    /\ UNCHANGED <<route, runBase, clipVars>>

\* the Copy button is disabled while the required field is empty; the git
\* builder's button is never disabled
CopyEnabled(r, o) ==
    CASE r = "/yt-dlp" -> Truthy(o.url)
      [] r = "/ffmpeg" -> Truthy(o.inputFile)
      [] r = "/imagemagick" -> Truthy(o.inputFile)
      [] r = "/curl" -> o.url # <<>>
      [] r = "/git" -> TRUE
      [] OTHER -> FALSE

Remove(seq, i) == SubSeq(seq, 1, i - 1) \o SubSeq(seq, i + 1, Len(seq))

\* copyToClipboard up to its await: navigator.clipboard.writeText(command)
CopyToClipboard ==
    /\ CanAct
    /\ CopyEnabled(route, options)
    /\ writes' = Append(writes, command)
    /\ nActions' = nActions + 1
    /\ UNCHANGED <<route, options, selectedPreset, command, effectPending, runBase,
                   runKeys, copied, timers, stale>>

\* the write of writes[i] is fulfilled: setCopied(true); setTimeout(..., 2000)
WriteResolves(i) ==
    /\ i \in 1..Len(writes)
    /\ writes' = Remove(writes, i)
    /\ copied' = TRUE
    /\ timers' = timers + 1
    /\ UNCHANGED <<route, options, selectedPreset, command, effectPending, nActions,
                   runBase, runKeys, stale>>

\* slip: the catch block shows the confirmation too
WriteRejectsShowsCopied(i) ==
    /\ i \in 1..Len(writes)
    /\ writes' = Remove(writes, i)
    /\ copied' = TRUE
    /\ UNCHANGED <<route, options, selectedPreset, command, effectPending, nActions,
                   runBase, runKeys, timers, stale>>

\* the write of writes[i] is rejected: catch (err) { console.error(...) }
WriteRejects(i) ==
    /\ i \in 1..Len(writes)
    /\ writes' = Remove(writes, i)
    /\ UNCHANGED <<route, options, selectedPreset, command, effectPending, nActions,
                   runBase, runKeys, copied, timers, stale>>

\* the oldest timer of this mount fires: setCopied(false)
TimerFires ==
    /\ timers > 0
    /\ timers' = timers - 1
    /\ copied' = FALSE
    /\ UNCHANGED <<route, options, selectedPreset, command, effectPending, nActions,
                   runBase, runKeys, writes, stale>>

\* a promise or timer of an unmounted builder completes: its setCopied has no
\* effect; others may or may not remain
StaleCallback ==
    /\ stale
    /\ stale' \in BOOLEAN
    /\ UNCHANGED <<route, options, selectedPreset, command, effectPending, nActions,
                   runBase, runKeys, copied, writes, timers>>

Next ==
    \/ \E p \in Routes : Navigate(p)
    \/ RunEffect
    \/ \E f \in DOMAIN Values(route) : \E v \in Values(route)[f] : UpdateOption(f, v)
    \/ \E checked \in BOOLEAN : ToggleAudioOnly(checked)
    \/ \E checked \in BOOLEAN : ToggleVideoOnly(checked)
    \/ \E k \in PresetKeys(route) \cup {"none"} : ApplyPreset(k)
    \/ CopyToClipboard
    \/ \E i \in 1..Len(writes) : WriteResolves(i)
    \/ \E i \in 1..Len(writes) : WriteRejects(i)
    \/ TimerFires
    \/ StaleCallback

Spec == Init /\ [][Next]_vars

\* The browser fires every timer that was set, and React runs every effect it
\* has scheduled; nothing is assumed about the user or the clipboard.
SpecLive == Spec /\ WF_vars(TimerFires) /\ WF_vars(RunEffect)

-----------------------------------------------------------------------------
(* Inputs of the compilers: Options records a user reaches by filling the   *)
(* forms in, used as starting screens where a property of the compilation   *)
(* is checked on records far from the defaults.                             *)

YtDlpFilled ==
    Overlay(YtDlpDefaults,
        [ url |-> "https://x/y", outputPath |-> "/dl", subtitles |-> "manual",
          embedSubtitles |-> TRUE, playlist |-> "range", playlistStart |-> "2",
          playlistEnd |-> "5", rateLimit |-> "1M", cookieSource |-> "browser",
          cookieFile |-> "cookies.txt", cookieProfile |-> "Default",
          sponsorblockRemove |-> "sponsor", sponsorblockMark |-> "intro",
          downloadArchive |-> "archive.txt", proxy |-> "socks5://p:1080" ])

FFmpegFilled ==
    Overlay(FFmpegDefaults,
        [ inputFile |-> "in.mov", outputFile |-> "out.mkv", videoBitrate |-> "2M",
          audioBitrate |-> "192k", resolution |-> "custom",
          customResolution |-> "800x600", frameRate |-> "30", startTime |-> "00:00:10",
          duration |-> "30", threads |-> "4", pixFmt |-> "yuv420p",
          videoProfile |-> "high", videoLevel |-> "4.1", vsync |-> "cfr",
          fastStart |-> TRUE, audioSampleRate |-> "44100", audioChannels |-> "2",
          videoFilter |-> "scale=640:-1", audioFilter |-> "volume=2",
          extraOptions |-> "-map 0" ])

ImageMagickFilled ==
    Overlay(ImageMagickDefaults,
        [ inputFile |-> "in.png", outputFormat |-> "png", resize |-> "50%",
          quality |-> "85", crop |-> "100x100+0+0", rotate |-> "90", flip |-> TRUE,
          flop |-> TRUE, grayscale |-> TRUE, background |-> "white", flatten |-> TRUE,
          blur |-> "0x8", sharpen |-> "0x1", density |-> "300",
          extraOptions |-> "-auto-orient" ])

CurlFilled ==
    Overlay(CurlDefaults,
        [ method |-> "POST", url |-> <<"https://x">>, jsonBody |-> "{\"a\":1}",
          formBody |-> "a=1", rawBody |-> "hello", contentType |-> "text/plain",
          headers |-> <<"A:", " ", "1">>, queryParams |-> <<" ", "q=1", " ">>,
          showHeaders |-> TRUE, insecure |-> TRUE, compressed |-> TRUE,
          authType |-> "basic", username |-> "user", password |-> "pw",
          bearerToken |-> "tok", outputFile |-> "out.json", proxy |-> "http://p:8080",
          timeout |-> "30", retry |-> "3", extraOptions |-> "--verbose" ])

GitFilled ==
    Overlay(GitDefaults,
        [ repoPath |-> "/repo", command |-> "push", branch |-> "main",
          files |-> <<"a.txt", " ", "b.txt">>, statusShort |-> TRUE,
          commitMessage |-> "fix", commitAll |-> TRUE, setUpstream |-> TRUE,
          pullRebase |-> TRUE, newBranchName |-> "feature/x", checkoutTarget |-> "main",
          stashMessage |-> "wip", stashKeepIndex |-> TRUE, logLimit |-> "10",
          logOneline |-> TRUE, diffTarget |-> "HEAD~1", diffCached |-> TRUE,
          cloneUrl |-> "https://h/r.git", cloneDirectory |-> "dir", cloneBare |-> TRUE,
          resetTarget |-> "HEAD~1", tagName |-> "v1.0.0", tagMessage |-> "Release",
          extraOptions |-> "--verbose" ])

\* the records of the two worked examples (downloader audio-only MP3, HTTP form POST)
YtDlpExample ==
    Overlay(YtDlpDefaults,
        [ audioOnly |-> TRUE, format |-> "mp3", audioQuality |-> "0",
          url |-> "https://x/y" ])

CurlExample ==
    Overlay(CurlDefaults,
        [ method |-> "POST", dataMode |-> "form", formBody |-> "a=1",
          url |-> <<"https://x">> ])

Inputs(r) ==
    CASE r = "/yt-dlp" -> {YtDlpDefaults, YtDlpFilled, YtDlpExample}
      [] r = "/ffmpeg" -> {FFmpegDefaults, FFmpegFilled}
      [] r = "/imagemagick" -> {ImageMagickDefaults, ImageMagickFilled}
      [] r = "/curl" -> {CurlDefaults, CurlFilled, CurlExample}
      [] r = "/git" -> {GitDefaults, GitFilled}
      [] OTHER -> {NoOptions}

InitInputs ==
    /\ route \in ToolPaths
    /\ options \in Inputs(route)
    /\ selectedPreset = ""
    /\ command = Compile(route, options)
    /\ effectPending = FALSE
    /\ nActions = 0
    /\ runBase = options
    /\ runKeys = <<>>
    /\ copied = FALSE
    /\ writes = <<>>
    /\ timers = 0
    /\ stale = FALSE

SpecInputs == InitInputs /\ [][Next]_vars

-----------------------------------------------------------------------------
(* Properties *)

Placeholders ==
    { "# Please specify an input file", "# Please specify a URL",
      "# Please specify a clone URL", "# Please specify a tag name" }

\* token a immediately followed by token b
HasPair(parts, a, b) == \E i \in 1..(Len(parts) - 1) : parts[i] = a /\ parts[i + 1] = b

\* token a followed by anything but b
HasOther(parts, a, b) == \E i \in 1..(Len(parts) - 1) : parts[i] = a /\ parts[i + 1] # b

ContainsAny(parts, toks) == \E t \in toks : Contains(parts, t)

\* the required field of the mounted builder is empty
RequiredMissing(r, o) ==
    CASE r = "/yt-dlp" -> o.url = ""
      [] r = "/ffmpeg" -> o.inputFile = ""
      [] r = "/imagemagick" -> o.inputFile = ""
      [] r = "/curl" -> o.url = <<>>
      [] r = "/git" -> \/ o.command = "clone" /\ o.cloneUrl = ""
                       \/ o.command = "tag" /\ o.tagName = ""
      [] OTHER -> FALSE

\* C1: in every one of the five builders, an Options record whose required
\* field is empty compiles to the placeholder comment, never to a command.
\* (Fails: the yt-dlp compiler has no placeholder and returns a command
\* without a URL.)
C1_PlaceholderWhenRequiredMissing ==
    (route \in ToolPaths /\ ~effectPending /\ RequiredMissing(route, options))
        => command \in Placeholders

\* C2: on the ffmpeg screen audioOnly and videoOnly are never both true, so
\* the command never holds both -vn and -an.  (Fails: the audioExtract preset
\* sets audioOnly without clearing videoOnly.)
C2_NeverAudioOnlyAndVideoOnly ==
    route = "/ffmpeg" =>
        /\ ~(options.audioOnly /\ options.videoOnly)
        /\ ~(Contains(FFmpegParts(options), "-vn") /\ Contains(FFmpegParts(options), "-an"))

VideoEncodeFlags ==
    {"-crf", "-preset", "-b:v", "-s", "-r", "-pix_fmt", "-profile:v", "-level:v",
     "-vsync", "-movflags"}

AudioEncodeFlags == {"-b:a", "-ar", "-ac"}

ExactlyOne(a, b, c) == (a /\ ~b /\ ~c) \/ (~a /\ b /\ ~c) \/ (~a /\ ~b /\ c)

\* C3: every ffmpeg command with an input file picks exactly one of
\* {-vn, -c:v copy, re-encode flags} for video and exactly one of
\* {-an, -c:a copy, re-encode flags} for audio; with -c:v copy none of the
\* video re-encode flags is present, with -c:a copy none of the audio ones.
C3_CopyExcludesReencode ==
    (route = "/ffmpeg" /\ Truthy(options.inputFile)) =>
        LET p == FFmpegParts(options) IN
        /\ command = Join(p)
        /\ HasPair(p, "-c:v", "copy") =>
              ~HasOther(p, "-c:v", "copy") /\ ~ContainsAny(p, VideoEncodeFlags)
        /\ HasPair(p, "-c:a", "copy") =>
              ~HasOther(p, "-c:a", "copy") /\ ~ContainsAny(p, AudioEncodeFlags)
        /\ ExactlyOne(Contains(p, "-vn"), HasPair(p, "-c:v", "copy"),
                      HasOther(p, "-c:v", "copy") \/ ContainsAny(p, VideoEncodeFlags))
        /\ ExactlyOne(Contains(p, "-an"), HasPair(p, "-c:a", "copy"),
                      HasOther(p, "-c:a", "copy") \/ ContainsAny(p, AudioEncodeFlags))

\* both streams are copied while every re-encode field is filled in
C3_Witness ==
    /\ route = "/ffmpeg"
    /\ options.copyVideo /\ options.copyAudio /\ ~options.audioOnly /\ ~options.videoOnly
    /\ Truthy(options.inputFile) /\ Truthy(options.crf) /\ Truthy(options.videoBitrate)
    /\ Truthy(options.audioBitrate) /\ Truthy(options.audioChannels)
    /\ HasPair(FFmpegParts(options), "-c:v", "copy")
    /\ command = Join(FFmpegParts(options))

\* the value field f has after the presets of runKeys were applied in turn to runBase
AfterPresets(r, base, keys, f) ==
    LET setters == {i \in 1..Len(keys) : f \in DOMAIN PRESETS(r)[keys[i]]}
    IN  IF setters = {} THEN base[f]
        ELSE PRESETS(r)[keys[CHOOSE i \in setters : \A j \in setters : j <= i]][f]

\* C4: presets applied one after the other compose: every field holds the
\* value of the last applied preset that sets it, and a field no applied
\* preset sets keeps the value it had before the first of them (not its default).
C4_PresetsCompose ==
    (route \in ToolPaths /\ runKeys # <<>>) =>
        /\ DOMAIN options = DOMAIN runBase
        /\ \A f \in DOMAIN options : options[f] = AfterPresets(route, runBase, runKeys, f)

\* presets A then B on a filled-in form: a field only A sets, and a non-default
\* field neither sets
C4_Witness ==
    /\ route \in ToolPaths
    /\ Len(runKeys) = 2 /\ runKeys[1] # runKeys[2]
    /\ \E f \in DOMAIN PRESETS(route)[runKeys[1]] :
          /\ f \notin DOMAIN PRESETS(route)[runKeys[2]]
          /\ PRESETS(route)[runKeys[1]][f] # runBase[f]
          /\ options[f] = PRESETS(route)[runKeys[1]][f]
    /\ \E g \in DOMAIN options :
          /\ g \notin DOMAIN PRESETS(route)[runKeys[1]]
          /\ g \notin DOMAIN PRESETS(route)[runKeys[2]]
          /\ runBase[g] # Defaults(route)[g]
          /\ options[g] = runBase[g]

\* C5: selecting "none" clears the preset indicator and leaves the Options
\* record and the compiled command as they were.
C5_NoneClearsIndicatorOnly ==
    [][ApplyPreset("none") =>
          /\ selectedPreset' = ""
          /\ options' = options
          /\ command' = command
          /\ Compile(route', options') = Compile(route, options)]_vars

\* a preset was applied and "none" selected afterwards: the preset's values stay
C5_Witness ==
    /\ route \in ToolPaths
    /\ runKeys # <<>> /\ selectedPreset = ""
    /\ options # Defaults(route)
    /\ ~effectPending /\ command = Compile(route, options)

\* C6: the Options record always has exactly the keys of the initial record,
\* and every preset only names keys of the initial record.
C6_KeySetIsFixed ==
    /\ route \in ToolPaths => DOMAIN options = DOMAIN Defaults(route)
    /\ \A r \in ToolPaths : \A k \in DOMAIN PRESETS(r) :
          DOMAIN PRESETS(r)[k] \subseteq DOMAIN Defaults(r)

\* an edit followed by a preset
C6_Witness ==
    /\ route \in ToolPaths /\ nActions = 2
    /\ runKeys # <<>> /\ runBase # Defaults(route)
    /\ options # runBase

\* C7: the displayed command is the compilation of the current Options record
\* and of nothing else (not the preset indicator, the edit order or the
\* number of edits that led to the record).
C7_CommandIsFunctionOfOptions ==
    (route \in ToolPaths /\ ~effectPending) => command = Compile(route, options)

\* two distinct fields edited away from their defaults (reached in either order)
C7_Witness ==
    /\ route \in ToolPaths /\ nActions = 2 /\ runKeys = <<>> /\ ~effectPending
    /\ Cardinality({f \in DOMAIN options : options[f] # Defaults(route)[f]}) = 2
    /\ command = Compile(route, options)
    /\ command \notin Placeholders

\* C8: yt-dlp mode selection.  audioOnly: the command starts
\* yt-dlp -x --audio-format F, then --audio-quality Q exactly when audioQuality
\* is non-empty, and holds no -f and no --merge-output-format.  Otherwise:
\* exactly one -f, --merge-output-format F exactly when format is not
\* "default", and no -x.  The audio-only MP3 example compiles as documented.
C8_DownloaderModes ==
    (route = "/yt-dlp" /\ ~effectPending) =>
        LET o == options
            p == YtDlpParts(o)
            F == IF o.format = "mp4" THEN "mp3" ELSE o.format
        IN
        /\ command = Join(p)
        /\ o.audioOnly =>
              /\ SubSeq(p, 1, 4) = <<"yt-dlp", "-x", "--audio-format", F>>
              /\ IF o.audioQuality # ""
                 THEN SubSeq(p, 5, 6) = <<"--audio-quality", o.audioQuality>>
                 ELSE ~Contains(p, "--audio-quality")
              /\ ~Contains(p, "-f") /\ ~Contains(p, "--merge-output-format")
        /\ ~o.audioOnly =>
              /\ Count(p, "-f") = 1 /\ p[2] = "-f"
              /\ Contains(p, "--merge-output-format") <=> o.format # "default"
              /\ o.format # "default" =>
                    /\ Count(p, "--merge-output-format") = 1
                    /\ HasPair(p, "--merge-output-format", o.format)
              /\ ~Contains(p, "-x") /\ ~Contains(p, "--audio-format")
              /\ ~Contains(p, "--audio-quality")
        /\ o = YtDlpExample =>
              command = "yt-dlp -x --audio-format mp3 --audio-quality 0 -o %(title)s.%(ext)s https://x/y"

\* the example record on screen after a user action, its command compiled
C8_Witness ==
    /\ route = "/yt-dlp" /\ ~effectPending /\ nActions > 0
    /\ options = YtDlpExample
    /\ command = "yt-dlp -x --audio-format mp3 --audio-quality 0 -o %(title)s.%(ext)s https://x/y"

NoEmptyToken(p) == \A i \in 1..Len(p) : p[i] # ""

\* where the extra options stand in the commands of the four builders that have them
C9_Placement ==
    /\ (route = "/ffmpeg" /\ options.inputFile # "") =>
          LET p == FFmpegParts(options) IN
          /\ command = Join(p)
          /\ p[Len(p)] = Quote(IF options.outputFile # "" THEN options.outputFile
                               ELSE "output." \o options.format)
          /\ IF options.extraOptions # "" THEN p[Len(p) - 1] = options.extraOptions
             ELSE NoEmptyToken(p)
    /\ (route = "/imagemagick" /\ options.inputFile # "") =>
          LET p == ImageMagickParts(options) IN
          /\ command = Join(p)
          /\ IF options.extraOptions # "" THEN p[Len(p) - 1] = options.extraOptions
             ELSE NoEmptyToken(p)
    /\ (route = "/curl" /\ options.url # <<>>) =>
          LET p == CurlParts(options)
              u == IF options.outputFile # "" THEN Len(p) - 2 ELSE Len(p)
          IN
          /\ command = Join(p)
          /\ p[u] = Quote(CurlFinalUrl(options))
          /\ IF options.extraOptions # "" THEN p[u - 1] = options.extraOptions
             ELSE NoEmptyToken(p)
    /\ (route = "/git" /\ command \notin Placeholders) =>
          LET p == GitParts(options) IN
          /\ command = Join(p)
          /\ IF options.extraOptions # "" THEN p[Len(p)] = options.extraOptions
             ELSE NoEmptyToken(p)

\* C9 as claimed: every one of the five builders has a free-text extra-options
\* field, emitted verbatim at its place when non-empty and not at all when
\* empty.  (Fails: the yt-dlp Options record has no extraOptions field.)
C9_EveryToolHasExtraOptions ==
    /\ route \in ToolPaths => "extraOptions" \in DOMAIN options
    /\ C9_Placement

\* C9 amended: the ffmpeg, ImageMagick, curl and git builders have the
\* extra-options field (yt-dlp has none); non-empty, its text is one token:
\* right before the quoted output target (ffmpeg, ImageMagick), right before
\* the quoted URL (curl), or the last token (git); empty, nothing is emitted.
C9_FourToolsHaveExtraOptions ==
    /\ route \in ToolPaths => ("extraOptions" \in DOMAIN options <=> route # "/yt-dlp")
    /\ C9_Placement

\* curl with extra options between the body flag and the URL, -o after the URL
C9_Witness ==
    /\ route = "/curl" /\ options.url # <<>>
    /\ options.extraOptions # "" /\ options.outputFile # ""
    /\ nActions > 0
    /\ command = Join(CurlParts(options))

BodyMethods == {"POST", "PUT", "PATCH", "DELETE"}

BodyFlags == {"--data-binary", "--data-urlencode"}

\* C10: curl emits -X <method> exactly when method is not GET; it emits a
\* body flag only for POST, PUT, PATCH and DELETE, at most one, chosen by
\* dataMode (json: --data-binary '<jsonBody>', form: --data-urlencode
\* "<formBody>", raw: --data-binary '<rawBody>') and only when that body is
\* non-empty.  The form POST example compiles as documented.
C10_MethodAndBody ==
    (route = "/curl" /\ options.url # <<>>) =>
        LET o == options
            p == CurlParts(o)
            nBody == Cardinality({i \in 1..Len(p) : p[i] \in BodyFlags})
            body == CASE o.dataMode = "json" -> o.jsonBody
                      [] o.dataMode = "form" -> o.formBody
                      [] o.dataMode = "raw" -> o.rawBody
                      [] OTHER -> ""
        IN
        /\ command = Join(p)
        /\ Contains(p, "-X") <=> o.method # "GET"
        /\ o.method # "GET" => Count(p, "-X") = 1 /\ HasPair(p, "-X", o.method)
        /\ nBody <= 1
        /\ nBody = 1 <=> (o.method \in BodyMethods /\ body # "")
        /\ nBody = 1 =>
              CASE o.dataMode = "json" -> HasPair(p, "--data-binary", "'" \o o.jsonBody \o "'")
                [] o.dataMode = "form" ->
                      HasPair(p, "--data-urlencode", "\"" \o o.formBody \o "\"")
                [] o.dataMode = "raw" -> HasPair(p, "--data-binary", "'" \o o.rawBody \o "'")
        /\ o = CurlExample =>
              /\ HasPair(p, "-X", "POST")
              /\ HasPair(p, "--data-urlencode", "\"a=1\"")
              /\ p[Len(p)] = "\"https://x\""
              /\ command = "curl -L -X POST --data-urlencode \"a=1\" \"https://x\""

\* the example request on screen after a user action, its command compiled
C10_Witness ==
    /\ route = "/curl" /\ nActions > 0
    /\ options = CurlExample
    /\ command = "curl -L -X POST --data-urlencode \"a=1\" \"https://x\""

-----------------------------------------------------------------------------
(* C11: the URL token of the HTTP tool *)

\* white space as the language standard defines it: the Unicode space
\* separators (category Zs), the four ASCII controls and the byte order mark
\* of the WhiteSpace production, and the four line terminators
SpaceSeparators ==
    {" ", "\\u00A0", "\\u1680", "\\u202F", "\\u205F", "\\u3000"}
    \cup {"\\u200" \o d : d \in {"0", "1", "2", "3", "4", "5", "6", "7", "8", "9", "A"}}

LineTerminators == {"\n", "\r", "\\u2028", "\\u2029"}

WhiteSpace == SpaceSeparators \cup LineTerminators \cup {"\t", "", "\f", "\\uFEFF"}

\* the Text between the first and the last chunk that is not white space
Unpadded(text) ==
    LET inked == {i \in 1..Len(text) : text[i] \notin WhiteSpace}
    IN  IF inked = {} THEN <<>>
        ELSE SubSeq(text, CHOOSE i \in inked : \A j \in inked : i <= j,
                          CHOOSE i \in inked : \A j \in inked : j <= i)

UrlWithQuery(o) ==
    IF Unpadded(o.queryParams) = <<>> THEN Str(o.url)
    ELSE Str(o.url) \o (IF \E i \in 1..Len(o.url) : o.url[i] = "?" THEN "&" ELSE "?")
         \o Str(Unpadded(o.queryParams))

\* C11: in every command of the HTTP tool that is not the placeholder, the URL
\* token is "url + sep + trim(queryParams)" in double quotes, with sep "&" when
\* url holds a "?" and "?" otherwise, and nothing appended for a blank
\* queryParams; it is the last token, or is followed by exactly -o "<outputFile>"
\* when outputFile is non-empty.
C11_UrlToken ==
    (route = "/curl" /\ options.url # <<>>) =>
        LET p == CurlParts(options)
            n == Len(p)
            u == "\"" \o UrlWithQuery(options) \o "\""
        IN  /\ command = Join(p)
            /\ IF options.outputFile = ""
               THEN p[n] = u /\ (n > 1 => p[n - 1] # "-o")
               ELSE /\ n >= 4
                    /\ p[n - 2] = u
                    /\ p[n - 1] = "-o"
                    /\ p[n] = "\"" \o options.outputFile \o "\""

\* a URL that already holds a "?", query parameters padded with a carriage
\* return and U+3000, and an output file
C11_Witness ==
    /\ route = "/curl" /\ nActions > 0
    /\ options.url = <<"https://x/api", "?", "a=1">>
    /\ options.queryParams = <<"\r", "q=1", "\\u3000">>
    /\ options.outputFile = "out.json"
    /\ LET p == CurlParts(options)
       IN  SubSeq(p, Len(p) - 2, Len(p)) =
               <<"\"https://x/api?a=1&q=1\"", "-o", "\"out.json\"">>

-----------------------------------------------------------------------------
(* C12, C13: the reset and push subcommands of the version-control tool *)

\* the tokens of the displayed git command are: the prefix (git, preceded by
\* cd "<repoPath>" && when repoPath is set), then seg, then the extra options
GitSegmentIs(seg) ==
    LET p == GitParts(options)
        k == IF options.repoPath = "" THEN 1 ELSE 4
        e == IF options.extraOptions = "" THEN 0 ELSE 1
    IN  /\ command = Join(p)
        /\ p[k] = "git"
        /\ Len(p) = k + Len(seg) + e
        /\ SubSeq(p, k + 1, k + Len(seg)) = seg
        /\ (options.repoPath = "" /\ options.extraOptions = "")
               => command = Join(<<"git">> \o seg)

ResetModeFlag(o) ==
    IF o.resetMode = "soft" THEN <<"--soft">>
    ELSE IF o.resetMode = "hard" THEN <<"--hard">>
    ELSE <<>>

\* C12: for command reset the output is git reset, then --soft or --hard when
\* resetMode is soft or hard and nothing when it is mixed (--mixed is never
\* emitted), then resetTarget when non-empty; at most one mode flag is present;
\* {command: reset, resetMode: mixed, resetTarget: T}, other fields at their
\* defaults, compiles to "git reset T".
C12_Reset ==
    (route = "/git" /\ options.command = "reset") =>
        /\ GitSegmentIs(<<"reset">> \o ResetModeFlag(options)
                        \o (IF options.resetTarget = "" THEN <<>>
                            ELSE <<options.resetTarget>>))
        /\ ~Contains(GitParts(options), "--mixed")
        /\ Count(GitParts(options), "--soft") + Count(GitParts(options), "--hard") <= 1
        /\ options = Overlay(GitDefaults, [command |-> "reset", resetTarget |-> "HEAD~1"])
               => command = "git reset HEAD~1"

\* the worked example: reset, mixed, target HEAD~1, everything else default
C12_Witness ==
    /\ route = "/git" /\ nActions > 0
    /\ options = Overlay(GitDefaults, [command |-> "reset", resetTarget |-> "HEAD~1"])
    /\ options.resetMode = "mixed"
    /\ command = "git reset HEAD~1"

\* C13: for command push the tokens are push [-u] [--force-with-lease | --force]
\* [remote] [branch] in this order; mode none emits neither force flag,
\* force-with-lease only --force-with-lease, force only --force, so the two never
\* appear together; -u is emitted only when setUpstream is true and branch is
\* non-empty.
C13_Push ==
    (route = "/git" /\ options.command = "push") =>
        LET p == GitParts(options)
        IN  /\ GitSegmentIs(
                   <<"push">>
                   \o (IF options.setUpstream /\ options.branch # "" THEN <<"-u">> ELSE <<>>)
                   \o (CASE options.pushForceMode = "force-with-lease"
                                -> <<"--force-with-lease">>
                          [] options.pushForceMode = "force" -> <<"--force">>
                          [] OTHER -> <<>>)
                   \o (IF options.remote = "" THEN <<>> ELSE <<options.remote>>)
                   \o (IF options.branch = "" THEN <<>> ELSE <<options.branch>>))
            /\ ~(Contains(p, "--force") /\ Contains(p, "--force-with-lease"))
            /\ Contains(p, "--force") <=> options.pushForceMode = "force"
            /\ Contains(p, "--force-with-lease") <=> options.pushForceMode = "force-with-lease"
            /\ Contains(p, "-u") => (options.setUpstream /\ options.branch # "")

\* a push with upstream, lease-protected force, remote and branch, run in a
\* repository directory with extra options
C13_Witness ==
    /\ route = "/git" /\ nActions > 0
    /\ options.command = "push" /\ options.pushForceMode = "force-with-lease"
    /\ options.setUpstream /\ options.branch = "main" /\ options.remote = "origin"
    /\ options.repoPath = "/repo" /\ options.extraOptions = "--verbose"
    /\ command = "cd \"/repo\" && git push -u --force-with-lease origin main --verbose"

-----------------------------------------------------------------------------
(* C14: conditional emission of the flags governed by one option field *)

\* the token array the compiler of route r joins
PartsOf(r, o) ==
    CASE r = "/yt-dlp" -> YtDlpParts(o)
      [] r = "/ffmpeg" -> FFmpegParts(o)
      [] r = "/imagemagick" -> ImageMagickParts(o)
      [] r = "/curl" -> CurlParts(o)
      [] r = "/git" -> GitParts(o)
      [] OTHER -> <<>>

\* <<field, flag>>: string fields (free text or a selection) whose value
\* follows a flag of their own
TextFlags(r) ==
    CASE r = "/yt-dlp" ->
            { <<"audioQuality", "--audio-quality">>, <<"outputPath", "-P">>,
              <<"outputTemplate", "-o">>, <<"subtitleLang", "--sub-lang">>,
              <<"subtitleFormat", "--sub-format">>,
              <<"playlistStart", "--playlist-start">>,
              <<"playlistEnd", "--playlist-end">>, <<"rateLimit", "--limit-rate">>,
              <<"proxy", "--proxy">>, <<"downloadArchive", "--download-archive">>,
              <<"cookieFile", "--cookies">>,
              <<"format", "--merge-output-format">>,
              <<"sponsorblockRemove", "--sponsorblock-remove">>,
              <<"sponsorblockMark", "--sponsorblock-mark">> }
      [] r = "/ffmpeg" ->
            { <<"logLevel", "-loglevel">>, <<"threads", "-threads">>,
              <<"startTime", "-ss">>, <<"duration", "-t">>, <<"crf", "-crf">>,
              <<"preset", "-preset">>, <<"videoBitrate", "-b:v">>,
              <<"frameRate", "-r">>, <<"pixFmt", "-pix_fmt">>,
              <<"videoProfile", "-profile:v">>, <<"videoLevel", "-level:v">>,
              <<"vsync", "-vsync">>, <<"audioBitrate", "-b:a">>,
              <<"audioSampleRate", "-ar">>, <<"audioChannels", "-ac">>,
              <<"format", "-f">>, <<"videoFilter", "-vf">>, <<"audioFilter", "-af">>,
              <<"videoCodec", "-c:v">>, <<"audioCodec", "-c:a">>,
              <<"resolution", "-s">> }
      [] r = "/imagemagick" ->
            { <<"resize", "-resize">>, <<"crop", "-crop">>, <<"rotate", "-rotate">>,
              <<"quality", "-quality">>, <<"density", "-density">>, <<"blur", "-blur">>,
              <<"sharpen", "-sharpen">>, <<"background", "-background">> }
      [] r = "/curl" ->
            { <<"timeout", "--max-time">>, <<"retry", "--retry">>,
              <<"proxy", "--proxy">>, <<"outputFile", "-o">>,
              <<"formBody", "--data-urlencode">>, <<"method", "-X">> }
      [] r = "/git" -> { <<"logLimit", "-n">> }
      [] OTHER -> {}

\* <<field, flag>>: boolean fields that switch a flag of their own
SwitchFlags(r) ==
    CASE r = "/yt-dlp" ->
            { <<"embedSubtitles", "--embed-subs">>,
              <<"embedThumbnail", "--embed-thumbnail">>,
              <<"embedMetadata", "--embed-metadata">>,
              <<"embedChapters", "--embed-chapters">>,
              <<"writeThumbnail", "--write-thumbnail">>,
              <<"writeDescription", "--write-description">>,
              <<"writeInfoJson", "--write-info-json">>,
              <<"liveFromStart", "--live-from-start">>,
              <<"useAria2c", "--external-downloader">> }
      [] r = "/ffmpeg" -> { <<"fastStart", "-movflags">>, <<"overwrite", "-y">> }
      [] r = "/imagemagick" ->
            { <<"flip", "-flip">>, <<"flop", "-flop">>, <<"grayscale", "-colorspace">>,
              <<"flatten", "-flatten">>, <<"stripMetadata", "-strip">> }
      [] r = "/curl" ->
            { <<"showHeaders", "-i">>, <<"followRedirects", "-L">>,
              <<"insecure", "-k">>, <<"compressed", "--compressed">> }
      [] r = "/git" ->
            { <<"statusShort", "--short">>, <<"statusBranch", "--branch">>,
              <<"commitAmend", "--amend">>, <<"commitNoVerify", "--no-verify">>,
              <<"setUpstream", "-u">>, <<"pullRebase", "--rebase">>,
              <<"logOneline", "--oneline">>, <<"logGraph", "--graph">>,
              <<"logDecorate", "--decorate">>,
              <<"stashIncludeUntracked", "--include-untracked">>,
              <<"stashKeepIndex", "--keep-index">>, <<"diffCached", "--cached">>,
              <<"diffNameOnly", "--name-only">>, <<"cloneBare", "--bare">> }
      [] OTHER -> {}

\* the screen shows a command, not the placeholder, and no refresh is pending
ShowsCommand ==
    /\ route \in ToolPaths /\ ~effectPending
    /\ command \notin Placeholders
    /\ command = Join(PartsOf(route, options))

\* C14: for every tool, a governed flag is in the command if and only if its
\* field is a non-empty string or true, whatever the other fields hold.
\* (Fails: whole sections of flags are skipped by the mode fields, e.g. -crf
\* under copyVideo, --audio-quality outside audioOnly, -u without a branch;
\* and some non-empty values suppress their flag, e.g. -X for GET, -s for
\* the resolution "original".)
C14_EmittedWheneverSet ==
    ShowsCommand =>
        LET p == PartsOf(route, options)
        IN  /\ \A e \in TextFlags(route) : Contains(p, e[2]) <=> options[e[1]] # ""
            /\ \A e \in SwitchFlags(route) : Contains(p, e[2]) <=> options[e[1]]

-----------------------------------------------------------------------------
(* C15: quoting of paths, URLs and raw bodies *)

\* flag is followed by v in double quotes whenever v is emitted (v non-empty
\* and its section active)
QuotedAfter(p, flag, v, active) ==
    (v # "" /\ active) => HasPair(p, flag, "\"" \o v \o "\"")

\* C15: in every compiled command of every tool each emitted file path or URL
\* (input and output files, output paths, cookie and archive files, repository
\* paths, clone URLs and directories, request and proxy URLs) is wrapped in
\* double quotes and each JSON or raw body in single quotes, the text between
\* the quotes being the field unchanged.
\* (Fails: the yt-dlp compiler quotes nothing, and neither the clone URL and
\* directory of git nor the proxy of curl are quoted.)
C15_PathsAndUrlsQuoted ==
    ShowsCommand =>
        LET p == PartsOf(route, options)
            o == options
            bodyMethod == o.method \in {"POST", "PUT", "PATCH", "DELETE"}
        IN  CASE route = "/yt-dlp" ->
                    /\ QuotedAfter(p, "-P", o.outputPath, TRUE)
                    /\ QuotedAfter(p, "--cookies", o.cookieFile, o.cookieSource = "file")
                    /\ QuotedAfter(p, "--download-archive", o.downloadArchive, TRUE)
                    /\ QuotedAfter(p, "--proxy", o.proxy, TRUE)
                    /\ o.url # "" => p[Len(p)] = "\"" \o o.url \o "\""
              [] route = "/ffmpeg" ->
                    /\ QuotedAfter(p, "-i", o.inputFile, TRUE)
                    /\ o.outputFile # "" => p[Len(p)] = "\"" \o o.outputFile \o "\""
              [] route = "/imagemagick" ->
                    /\ p[2] = "\"" \o o.inputFile \o "\""
                    /\ o.outputFile # "" => p[Len(p)] = "\"" \o o.outputFile \o "\""
              [] route = "/curl" ->
                    /\ Contains(p, "\"" \o UrlWithQuery(o) \o "\"")
                    /\ QuotedAfter(p, "-o", o.outputFile, TRUE)
                    /\ QuotedAfter(p, "--proxy", o.proxy, TRUE)
                    /\ (bodyMethod /\ o.dataMode = "json" /\ o.jsonBody # "")
                           => HasPair(p, "--data-binary", "'" \o o.jsonBody \o "'")
                    /\ (bodyMethod /\ o.dataMode = "raw" /\ o.rawBody # "")
                           => HasPair(p, "--data-binary", "'" \o o.rawBody \o "'")
              [] route = "/git" ->
                    /\ QuotedAfter(p, "cd", o.repoPath, TRUE)
                    /\ QuotedAfter(p, "clone", o.cloneUrl,
                                   o.command = "clone" /\ ~o.cloneBare)
                    /\ QuotedAfter(p, "--bare", o.cloneUrl,
                                   o.command = "clone" /\ o.cloneBare)
                    /\ (o.command = "clone" /\ o.cloneDirectory # "")
                           => Contains(p, "\"" \o o.cloneDirectory \o "\"")

-----------------------------------------------------------------------------
(* C16: the first token of a compiled command *)

InvocationName(r) ==
    CASE r = "/yt-dlp" -> "yt-dlp"
      [] r = "/ffmpeg" -> "ffmpeg"
      [] r = "/imagemagick" -> "magick"
      [] r = "/curl" -> "curl"
      [] r = "/git" -> "git"
      [] OTHER -> ""

\* C16 as claimed: for every tool and every Options record the compiled string
\* is the placeholder comment or has the tool's invocation name as first token.
\* (Fails: with a repoPath the git command starts with cd "<repoPath>" &&.)
C16_BeginsWithInvocationName ==
    route \in ToolPaths =>
        LET c == Compile(route, options)
            p == PartsOf(route, options)
        IN  \/ c \in Placeholders
            \/ c = Join(p) /\ p[1] = InvocationName(route)

\* C16: for every tool and every Options record the compiled string is the
\* placeholder comment, or has the tool's invocation name as first token, or -
\* for the version-control tool with a non-empty repoPath - starts with
\* cd "<repoPath>" && followed by git.
C16_BeginsWithInvocationNameOrCd ==
    route \in ToolPaths =>
        LET c == Compile(route, options)
            p == PartsOf(route, options)
        IN  /\ ~effectPending => command = c
            /\ \/ c \in Placeholders
               \/ /\ c = Join(p)
                  /\ IF route = "/git" /\ options.repoPath # ""
                     THEN SubSeq(p, 1, 4) =
                              <<"cd", "\"" \o options.repoPath \o "\"", "&&", "git">>
                     ELSE p[1] = InvocationName(route)

\* a repository path was typed on the git screen
C16_Witness ==
    /\ route = "/git" /\ nActions > 0
    /\ options = Overlay(GitDefaults, [repoPath |-> "/repo"])
    /\ command = "cd \"/repo\" && git status"

-----------------------------------------------------------------------------
(* C17, C18, C19: the copy indicator *)

\* C17: the copy indicator of a builder screen has two states; it starts idle
\* on every mount, becomes copied only by a clipboard write being fulfilled,
\* is cleared only by the delay timer, and from every copied state it
\* eventually returns to idle without any user action.
C17_CopyIndicator ==
    /\ [](copied \in BOOLEAN)
    /\ [][route' # route => ~copied']_vars
    /\ [][(route' = route /\ ~copied /\ copied')
             => \E i \in 1..Len(writes) : WriteResolves(i)]_vars
    /\ [][(route' = route /\ copied /\ ~copied') => TimerFires]_vars
    /\ (copied ~> ~copied)

\* a copy was confirmed and its timer is running
C17_Witness ==
    /\ route \in ToolPaths /\ nActions > 0
    /\ copied /\ timers = 1 /\ writes = <<>>

\* C18: when a clipboard write is rejected no retry is made, no timer is
\* started, and the screen shows the idle state once the rejection has been
\* handled, also when an earlier copy's confirmation was still shown.
\* (Fails: the catch block leaves copied alone, so after copy, success, copy,
\* rejection the screen still shows the confirmation.)
C18_RejectionLeavesIdle ==
    [][(\E i \in 1..Len(writes) : WriteRejects(i))
          => (~copied' /\ timers' = timers /\ Len(writes') = Len(writes) - 1)]_vars

\* C19: while the delay started by a fulfilled write has not elapsed, the
\* indicator is set.
\* (Fails: of two timers running, the older one clears the indicator of the
\* later copy.)
C19_IndicatorLastsFullDelay == timers > 0 => copied

-----------------------------------------------------------------------------
(* C20: the displayed command follows the Options record *)

\* C20: whenever no state update is pending the displayed command is the
\* compilation of the current Options record; a field edit stores its value and
\* a preset its values (last write wins), and the screen eventually shows the
\* compilation of that record; the downloader's command starts as the empty
\* string and is refreshed by its effect; the text handed to the clipboard is
\* the displayed command.
C20_DisplayedFollowsOptions ==
    /\ []((route \in ToolPaths /\ ~effectPending) => command = Compile(route, options))
    /\ [][\A f \in DOMAIN Values(route) : \A v \in Values(route)[f] :
              UpdateOption(f, v) => options'[f] = v]_vars
    /\ [][\A k \in PresetKeys(route) :
              ApplyPreset(k) => \A f \in DOMAIN PRESETS(route)[k] :
                                    options'[f] = PRESETS(route)[k][f]]_vars
    /\ [][(route' # route /\ route' = "/yt-dlp") => (command' = "" /\ effectPending')]_vars
    /\ [][CopyToClipboard
             => (writes'[Len(writes')] = command /\ command = Compile(route, options))]_vars
    /\ (effectPending ~> (~effectPending /\ command = Compile(route, options)))

\* the downloader after an edit, its effect, and a copy of the refreshed command
C20_Witness ==
    /\ route = "/yt-dlp" /\ ~effectPending /\ nActions = 2
    /\ options = Overlay(YtDlpDefaults, [url |-> "https://x/y"])
    /\ command = "yt-dlp -f bestvideo+bestaudio/best --merge-output-format mp4 -o %(title)s.%(ext)s https://x/y"
    /\ writes = <<command>>

-----------------------------------------------------------------------------
(* C21: builder state is local to one mount *)

\* C21: whatever was edited, preset or copied on the screens shown before, a
\* builder that is mounted starts from its default Options record, an empty
\* preset indicator and the idle copy state with nothing in flight, and a
\* promise or timer left pending by an earlier mount changes nothing on the
\* screen now shown.
C21_StateIsLocalToMount ==
    /\ [][route' # route =>
             /\ options' = Defaults(route')
             /\ selectedPreset' = ""
             /\ ~copied' /\ writes' = <<>> /\ timers' = 0]_vars
    /\ [][(stale /\ route' = route /\ writes' = writes /\ timers' = timers)
             => copied' = copied]_vars
    /\ [][StaleCallback =>
             UNCHANGED <<options, selectedPreset, command, copied, writes, timers>>]_vars

\* a copy is confirmed on a new mount while callbacks of an earlier mount pend
C21_Witness ==
    /\ route \in ToolPaths /\ stale
    /\ copied /\ timers = 1 /\ writes = <<>>

-----------------------------------------------------------------------------
(* C22: the home listing and the router *)

\* C22: the home page links to a tool's path if and only if the tool is
\* available, every link targets a path registered in the router, the router
\* registers exactly the home path and one path for each of the five tools,
\* and the screen shown is always one of these.
C22_HomeLinksAndRoutes ==
    /\ \A t \in TOOLS : (t.path \in HomeLinks) <=> t.available
    /\ HomeLinks \subseteq Routes
    /\ Routes = {"/", "/yt-dlp", "/ffmpeg", "/imagemagick", "/curl", "/git"}
    /\ Cardinality(Routes \ {"/"}) = Cardinality({"yt-dlp", "ffmpeg", "magick", "curl", "git"})
    /\ route \in Routes

\* the one linked tool, freshly mounted
C22_Witness ==
    /\ route \in HomeLinks /\ route = "/yt-dlp"
    /\ nActions = 0 /\ options = YtDlpDefaults /\ effectPending

-----------------------------------------------------------------------------
(* C23: the frame of updateOption *)

\* C23: in every builder updateOption(key, value) replaces exactly the named
\* field: the record keeps its keys, every other field keeps its value, and
\* the preset indicator and the copy indicator are unchanged, so the indicator
\* keeps naming the last applied preset after its fields have been edited.
C23_UpdateOptionFrame ==
    /\ [](\A f \in DOMAIN Values(route) : \A v \in Values(route)[f] :
             LET n == updateOption(options, f, v)
             IN  /\ DOMAIN n = DOMAIN options
                 /\ n[f] = v
                 /\ \A g \in DOMAIN options \ {f} : n[g] = options[g])
    /\ [][\A f \in DOMAIN Values(route) : \A v \in Values(route)[f] :
              UpdateOption(f, v) =>
                  /\ options'[f] = v
                  /\ \A g \in DOMAIN options \ {f} : options'[g] = options[g]
                  /\ selectedPreset' = selectedPreset
                  /\ copied' = copied]_vars

\* a preset is still named although one of its fields was edited afterwards
C23_Witness ==
    /\ route \in ToolPaths /\ selectedPreset \in PresetKeys(route)
    /\ runKeys = <<>>
    /\ \E f \in DOMAIN PRESETS(route)[selectedPreset] :
           options[f] # PRESETS(route)[selectedPreset][f]

-----------------------------------------------------------------------------
(* C24: the output target of the transcoder and of the image tool *)

LastToken(p) == p[Len(p)]

\* C24: the last token of every ffmpeg and ImageMagick command that is not the
\* placeholder is the double-quoted output target: outputFile when non-empty,
\* whatever the format field says; otherwise output.<format> for ffmpeg (mp4
\* for an empty format) and, for ImageMagick, output when outputFormat is auto
\* and output.<outputFormat> otherwise.
C24_OutputTarget ==
    /\ (route = "/ffmpeg" /\ options.inputFile # "") =>
           LET noFormat == [options EXCEPT !.format = ""]
           IN  /\ command = Join(FFmpegParts(options))
               /\ LastToken(FFmpegParts(options)) =
                      (IF options.outputFile # "" THEN "\"" \o options.outputFile \o "\""
                       ELSE "\"output." \o options.format \o "\"")
               /\ LastToken(FFmpegParts(noFormat)) =
                      (IF options.outputFile # "" THEN "\"" \o options.outputFile \o "\""
                       ELSE "\"output.mp4\"")
    /\ (route = "/imagemagick" /\ options.inputFile # "") =>
           /\ command = Join(ImageMagickParts(options))
           /\ LastToken(ImageMagickParts(options)) =
                  (IF options.outputFile # "" THEN "\"" \o options.outputFile \o "\""
                   ELSE IF options.outputFormat = "auto" THEN "\"output\""
                   ELSE "\"output." \o options.outputFormat \o "\"")

\* ImageMagick with an input file, no output file and the automatic format
C24_Witness ==
    /\ route = "/imagemagick" /\ nActions > 0
    /\ options.inputFile # "" /\ options.outputFile = "" /\ options.outputFormat = "auto"
    /\ command \notin Placeholders
    /\ LastToken(ImageMagickParts(options)) = "\"output\""

-----------------------------------------------------------------------------
(* C25: headers and auth of the HTTP tool *)

\* the positions that bound the lines of a Text: before it, its line feeds, after it
Cuts(text) == {0, Len(text) + 1} \cup {i \in 1..Len(text) : text[i] = "\n"}

NthCut(text, k) ==
    CHOOSE c \in Cuts(text) : Cardinality({d \in Cuts(text) : d < c}) = k - 1

\* the lines of a Text, each without its surrounding white space
UnpaddedLines(text) ==
    [k \in 1..(Cardinality(Cuts(text)) - 1) |->
        Unpadded(SubSeq(text, NthCut(text, k) + 1, NthCut(text, k + 1) - 1))]

NonBlank(line) == line # <<>>

\* the tokens that follow flag in p, in order
ValuesAfter(p, flag) ==
    LET at == {i \in 1..(Len(p) - 1) : p[i] = flag}
        nth(k) == CHOOSE i \in at : Cardinality({j \in at : j < i}) = k - 1
    IN  [k \in 1..Cardinality(at) |-> p[nth(k) + 1]]

ExpectedHeaders(o) ==
    LET lines == SelectSeq(UnpaddedLines(o.headers), NonBlank)
    IN  (IF o.contentType # "" THEN <<"\"Content-Type: " \o o.contentType \o "\"">>
         ELSE <<>>)
        \o [k \in 1..Len(lines) |-> "\"" \o Str(lines[k]) \o "\""]
        \o (IF o.authType = "bearer" /\ o.bearerToken # ""
            THEN <<"\"Authorization: Bearer " \o o.bearerToken \o "\"">>
            ELSE <<>>)

ExpectedUser(o) ==
    IF o.authType = "basic" /\ o.username # ""
    THEN <<"\"" \o o.username
             \o (IF o.password # "" THEN ":" \o o.password ELSE "") \o "\"">>
    ELSE <<>>

\* C25: the headers field yields one -H "<line>" pair per non-blank line, each
\* line trimmed, in line order, after the optional Content-Type header; at
\* most one auth group is emitted, chosen by authType: -u "user[:password]"
\* only for basic with a username, -H "Authorization: Bearer <token>" only for
\* bearer with a token, never both.
C25_HeadersAndAuth ==
    (route = "/curl" /\ options.url # <<>>) =>
        LET p == CurlParts(options)
        IN  /\ command = Join(p)
            /\ ValuesAfter(p, "-H") = ExpectedHeaders(options)
            /\ ValuesAfter(p, "-u") = ExpectedUser(options)
            /\ ~(Contains(p, "-u") /\
                  Contains(p, "\"Authorization: Bearer " \o options.bearerToken \o "\""))

\* header lines padded with U+FEFF, a carriage return and U+2028, a blank
\* line (U+00A0) between them, and a bearer token
C25_Witness ==
    /\ route = "/curl" /\ nActions > 0
    /\ options.headers = <<"\\uFEFF", "A:", " ", "1", "\r", "\n", "\\u00A0", "\n", "B:", " ", "2", "\\u2028">>
    /\ options.authType = "bearer"
    /\ ValuesAfter(CurlParts(options), "-H") =
           <<"\"Content-Type: text/plain\"", "\"A: 1\"", "\"B: 2\"",
             "\"Authorization: Bearer tok\"">>

-----------------------------------------------------------------------------
(* C26: placeholders and the clipboard *)

\* C26: in no builder can a placeholder comment be written to the clipboard:
\* whenever the compiled string is a placeholder the Copy button is disabled,
\* and no write in flight carries a placeholder.
\* (Fails: the git Copy button is never disabled, so "# Please specify a clone
\* URL" and "# Please specify a tag name" can be copied.)
C26_PlaceholderNeverCopied ==
    /\ (route \in ToolPaths /\ Compile(route, options) \in Placeholders)
           => ~CopyEnabled(route, options)
    /\ \A i \in 1..Len(writes) : writes[i] \notin Placeholders

-----------------------------------------------------------------------------
(* C27: presets and the required fields *)

\* the required or target-identifying fields of each tool
TargetFields(r) ==
    CASE r = "/yt-dlp" -> {"url"}
      [] r = "/ffmpeg" -> {"inputFile"}
      [] r = "/imagemagick" -> {"inputFile"}
      [] r = "/curl" -> {"url"}
      [] r = "/git" -> {"repoPath", "cloneUrl", "tagName"}
      [] OTHER -> {}

\* C27: no preset of any tool names a required or target-identifying field, and
\* every preset application leaves these fields as they were.
C27_PresetsKeepTargets ==
    /\ [](\A r \in ToolPaths : \A k \in DOMAIN PRESETS(r) :
             DOMAIN PRESETS(r)[k] \cap TargetFields(r) = {})
    /\ [][\A k \in PresetKeys(route) :
              ApplyPreset(k) => \A f \in TargetFields(route) : options'[f] = options[f]]_vars

\* a preset was applied to a form whose target fields are filled in
C27_Witness ==
    /\ route = "/git" /\ runKeys # <<>>
    /\ selectedPreset = runKeys[Len(runKeys)]
    /\ \A f \in TargetFields(route) : options[f] # ""

-----------------------------------------------------------------------------
(* C28: the preset indicator and unknown preset keys *)

\* keys that are neither "none" nor a key of the PRESETS table of route r
ForeignKeys(r) ==
    ({"", "bogus"} \cup ObjectPrototypeKeys \cup UNION {DOMAIN PRESETS(q) : q \in ToolPaths})
        \ (DOMAIN PRESETS(r) \cup {"none"})

\* C28: in every builder selectedPreset is the empty string or a key of the
\* builder's PRESETS table, and applyPreset with a key that is neither "none"
\* nor a key of PRESETS changes neither the Options record nor selectedPreset.
\* (Fails: PRESETS[key] is truthy for the property names every object inherits,
\* such as "constructor", and applyPreset then stores that key as
\* selectedPreset.)
C28_UnknownPresetKeyIsNoOp ==
    route \in ToolPaths =>
        /\ selectedPreset \in {""} \cup DOMAIN PRESETS(route)
        /\ \A k \in ForeignKeys(route) :
               applyPreset(route, options, selectedPreset, k) =
                   [options |-> options, selectedPreset |-> selectedPreset]

-----------------------------------------------------------------------------
(* C29: the curl command does not depend on useJson *)

\* the record a preset of the curl builder leaves behind
AfterCurlPreset(o, k) == applyPreset("/curl", o, "", k).options

\* C29: the compiled curl command does not depend on the useJson field: the
\* record with useJson flipped compiles to the same string; the body flag after
\* a preset is the one of the record with only the preset's method and dataMode
\* taken over; and after Form POST followed by JSON POST the body mode is still
\* form, so a form body is still sent with --data-urlencode.
C29_CommandIgnoresUseJson ==
    route = "/curl" =>
        /\ CurlCommand([options EXCEPT !.useJson = ~@]) = CurlCommand(options)
        /\ \A k \in DOMAIN CurlPresets :
               CurlBody(AfterCurlPreset(options, k)) =
                   CurlBody([options EXCEPT !.method = AfterCurlPreset(options, k).method,
                                            !.dataMode = AfterCurlPreset(options, k).dataMode])
        /\ (Len(runKeys) >= 2 /\ runKeys[Len(runKeys) - 1] = "formPost"
              /\ runKeys[Len(runKeys)] = "jsonPost") =>
               /\ options.useJson /\ options.method = "POST"
               /\ options.dataMode = "form"
               /\ ~Contains(CurlBody(options), "--data-binary")
               /\ Truthy(options.formBody) =>
                      CurlBody(options) = <<"--data-urlencode", Quote(options.formBody)>>

\* Form POST then JSON POST on a record with a URL, a JSON body and a form
\* body: useJson is set, and the command still sends the form body
C29_Witness ==
    /\ route = "/curl" /\ runKeys = <<"formPost", "jsonPost">>
    /\ options.useJson /\ options.dataMode = "form"
    /\ Truthy(options.jsonBody) /\ Truthy(options.formBody)
    /\ Contains(CurlParts(options), "--data-urlencode")
    /\ ~Contains(CurlParts(options), "--data-binary")
    /\ ~effectPending /\ command = Join(CurlParts(options))

-----------------------------------------------------------------------------
(* C30: the playlist range flags of the downloader *)

\* C30: on the downloader screen --playlist-start and --playlist-end are
\* emitted only while the playlist mode is 'range', and never together with
\* --no-playlist, so the modes 'all' and 'single' show a command without them.
\* (Fails: the range fields keep their values when the mode is switched to
\* 'all', and the command compiler emits them in every mode but 'single'.)
C30_RangeFlagsOnlyInRangeMode ==
    (route = "/yt-dlp" /\ ShowsCommand
        /\ ContainsAny(YtDlpParts(options), {"--playlist-start", "--playlist-end"})) =>
        /\ options.playlist = "range"
        /\ ~Contains(YtDlpParts(options), "--no-playlist")

\* the half of C30 that the code keeps: the range flags never appear together
\* with --no-playlist
C30_NeverWithNoPlaylist ==
    (route = "/yt-dlp" /\ ShowsCommand
        /\ ContainsAny(YtDlpParts(options), {"--playlist-start", "--playlist-end"})) =>
        ~Contains(YtDlpParts(options), "--no-playlist")

====
